---- MODULE Spec2Model ----
(***************************************************************************)
(* Model of the retrieval-and-grounding engine of mortgage-agent:          *)
(*   - the Quota Tracker      (src/app/core/limits.py)                     *)
(*   - the Rate Limiter       (src/app/core/rate_limit.py)                 *)
(*   - the Ingestion Pipeline (src/app/rag/ingest.py)                      *)
(*   - the Retriever          (src/app/rag/retriever.py)                   *)
(* Each subsystem has its own specification over the shared variables.     *)
(***************************************************************************)
EXTENDS Integers, Sequences, FiniteSets, TLC

\* ------------------------------------------------------------------ bounds
MaxLimit == 2
MaxCalls == 4
MaxWindow == 2
MaxRequests == 2
MaxTime == 3
MaxChecks == 4
MaxFiles == 2
MaxRows == 2
MaxRuns == 2
MaxTopK == 2
MaxTopSources == 2
MaxHits == 5
MaxPieces == 3

Users == {"u1", "u2"}
SessionIds == {"s1", "s2"}
Days == {1, 2}
Limits == 0..MaxLimit
Threads == {"t1", "t2"}

VARIABLES
  \* configuration (app/core/config.py), fixed for the life of the process
  q_limit_day, q_limit_session,
  \* the UTC date _today() returns
  today,
  \* tables daily_usage and sessions of the SQLite database (committed rows)
  daily_usage, sessions,
  \* the outcome of the most recent quota operation
  last,
  \* history of the run: calls per (day, user) and per session, and whether
  \* each of them met the session / the day precondition
  calls, dayCalls, dayPre, sessCalls, sessPre,
  \* request threads running the quota functions concurrently: the statement
  \* each is at, its local variables, its outcome; the thread holding the
  \* SQLite write lock and the uncommitted tables of its transaction
  pc, loc, outcome, db_writer, tx_daily_usage, tx_sessions, started,
  \* Rate Limiter: its configuration (app/core/config.py), the clock
  \* time.time(), the map _REQUEST_HISTORY, and the history of the run: the
  \* timestamps admitted per key, whether a key was rejected since its last
  \* admission, the outcome of the most recent check, the checks made
  ip_rate_limit_enabled, window, max_requests, now, history,
  admitted, rejectedSince, rl_last, rl_checks,
  \* request threads running enforce_rate_limit concurrently: the statement
  \* each is at, its local variables key and now, its outcome
  rl_pc, rl_loc, rl_outcome,
  \* Metadata Store tables documents and chunks (committed rows) and the
  \* Vector Index artifact at settings.vector_index_path
  documents, chunks, index_file,
  \* the ingestion run: the statement it is at, its local variables files,
  \* chunk_texts, chunk_meta, vectors; the number of runs that issued doc
  \* ids; the outcome of the most recent run; the store as the run found it
  ing_pc, ing_files, ing_chunk_texts, ing_chunk_meta, ing_vectors,
  gen, ing_result, ing_start,
  \* Retriever: its configuration (app/core/config.py); the retrieve call:
  \* the statement it is at, its local variables cleaned, index, the
  \* (score, idx) pairs still to join and chunk_hits; the outcome of the most
  \* recent call; the calls started; and the history of the call: whether
  \* the store was consistent when the index was read, the store as it was
  \* then, whether every join saw the store as it was then
  top_k, top_sources,
  rt_pc, rt_query, rt_k, rt_index, rt_rows, rt_chunk_hits, rt_result, rt_calls,
  rt_consistent, rt_seen, rt_stable,
  \* the call as made: whether the query was blank, the index file absent,
  \* the top_k argument an integer <= 0
  rt_call,
  \* Grounding Validator: the arguments of the enforce_grounding call (text
  \* as its sequence of characters) and the payload it returned
  gr_text, gr_allowed, gr_citations_required, gr_strict, gr_payload,
  \* Chunker: the arguments of the chunk_text call (text as its sequence of
  \* characters) and what the call came to
  ck_text, ck_max_chars, ck_overlap, ck_result,
  \* /chat: its configuration (app/core/config.py); the request being
  \* handled: the statement the handler is at, the request, the handler's
  \* local variables retrieval_result, index_missing, llm_output,
  \* llm_error_reason and grounding_result; the response of the most recent
  \* request
  settings_citations_required, settings_strict_grounding, settings_char_limit,
  ch_pc, ch_req, ch_retrieval, ch_index_missing, ch_llm_output,
  ch_llm_error_reason, ch_grounding, ch_response

quotaCfg == <<q_limit_day, q_limit_session>>
quotaDb == <<today, daily_usage, sessions>>
quotaHist == <<last, calls, dayCalls, dayPre, sessCalls, sessPre>>
quotaThreads == <<pc, loc, outcome, db_writer, tx_daily_usage, tx_sessions, started>>

rateCfg == <<ip_rate_limit_enabled, window, max_requests>>
rateHist == <<admitted, rejectedSince, rl_last, rl_checks>>
rateThreads == <<rl_pc, rl_loc, rl_outcome>>
rateVars == <<rateCfg, now, history, rateHist, rateThreads>>

storeVars == <<documents, chunks, index_file>>
ingestLocals == <<ing_files, ing_chunk_texts, ing_chunk_meta, ing_vectors>>
ingestVars == <<ing_pc, ingestLocals, gen, ing_result, ing_start>>

quotaVars == <<quotaCfg, quotaDb, quotaHist, quotaThreads>>
groundVars == <<gr_text, gr_allowed, gr_citations_required, gr_strict, gr_payload>>

chunkVars == <<ck_text, ck_max_chars, ck_overlap, ck_result>>

chatCfg == <<settings_citations_required, settings_strict_grounding,
            settings_char_limit>>
chatLocals == <<ch_retrieval, ch_index_missing, ch_llm_output, ch_llm_error_reason, ch_grounding>>
chatVars == <<chatCfg, ch_pc, ch_req, chatLocals, ch_response>>

retrieveCfg == <<top_k, top_sources>>
retrieveLocals == <<rt_query, rt_k, rt_index, rt_rows, rt_chunk_hits>>
retrieveHist == <<rt_consistent, rt_seen, rt_stable>>
retrieveVars == <<retrieveCfg, rt_pc, retrieveLocals, rt_result, rt_calls, retrieveHist, rt_call>>

nonQuota == <<rateVars, storeVars, ingestVars, retrieveVars, groundVars, chunkVars, chatVars>>
nonRate == <<quotaVars, storeVars, ingestVars, retrieveVars, groundVars, chunkVars, chatVars>>
nonIngest == <<quotaVars, rateVars, retrieveVars, groundVars, chunkVars, chatVars>>
nonRetrieve == <<quotaVars, rateVars, ingestVars, groundVars, chunkVars, chatVars>>

nonGround == <<quotaVars, rateVars, storeVars, ingestVars, retrieveVars, chunkVars, chatVars>>

nonChunk == <<quotaVars, rateVars, storeVars, ingestVars, retrieveVars, groundVars, chatVars>>

nonChat == <<rateVars, storeVars, ingestVars, retrieveVars, groundVars, chunkVars>>

vars == <<quotaVars, rateVars, storeVars, ingestVars, retrieveVars, groundVars, chunkVars, chatVars>>

EmptyTable == [k \in {} |-> 0]

\* ------------------------------------------------- Rate Limiter: state
ClientIps == {"ip1"}
Paths == {"/chat", "/feedback"}
RateKeys == ClientIps \X Paths

NoRateLocals == [key |-> <<"", "">>, now |-> 0]

NoCheck == [key |-> <<"", "">>, allowed |-> FALSE, priorInWindow |-> 0,
            rejectedBefore |-> FALSE]

\* rate_limit.py:14  _REQUEST_HISTORY starts empty; nothing was checked yet
RateStart ==
  /\ now = 0
  /\ history = EmptyTable
  /\ admitted = [k \in RateKeys |-> << >>]
  /\ rejectedSince = [k \in RateKeys |-> FALSE]
  /\ rl_last = NoCheck
  /\ rl_checks = 0
  /\ rl_pc = [t \in Threads |-> "idle"]
  /\ rl_loc = [t \in Threads |-> NoRateLocals]
  /\ rl_outcome = [t \in Threads |-> "none"]

\* the Rate Limiter takes no step (config.py:80: disabled by default)
RateQuiet ==
  /\ ip_rate_limit_enabled = FALSE
  /\ window = 0
  /\ max_requests = 0
  /\ RateStart

\* ------------------------------------------- Ingestion Pipeline: state
NoIndex == [exists |-> FALSE, vectors |-> << >>]

NoRun == [status |-> "none", docs |-> 0, chunks |-> 0]

NoCorpus == [ver |-> "", sizes |-> << >>]

\* logger.py:61-94  init_db creates documents and chunks empty; no index
\* file has been written; no ingestion run has started
StoreInit ==
  /\ documents = {}
  /\ chunks = {}
  /\ index_file = NoIndex

IngestIdle ==
  /\ ing_pc = "idle"
  /\ ing_files = NoCorpus
  /\ ing_chunk_texts = << >>
  /\ ing_chunk_meta = << >>
  /\ ing_vectors = << >>
  /\ gen = 0
  /\ ing_result = NoRun
  /\ ing_start = [documents |-> {}, chunks |-> {}, index_file |-> NoIndex]

\* the Ingestion Pipeline takes no step
IngestQuiet == StoreInit /\ IngestIdle

\* ------------------------------------------------------- Retriever: state
\* retriever.py:48-49  _empty_result
EmptyResult == [sources |-> << >>, chunks_retrieved |-> 0, sources_deduped |-> 0]

NoResult == [status |-> "none", value |-> EmptyResult]

NoStore == [documents |-> {}, chunks |-> {}, index_file |-> NoIndex]

NoCallMade == [blank |-> FALSE, no_index |-> FALSE, nonpositive |-> FALSE]

\* no retrieve call has started
RetrieveIdle ==
  /\ rt_pc = "idle"
  /\ rt_query = ""
  /\ rt_k = 0
  /\ rt_index = << >>
  /\ rt_rows = << >>
  /\ rt_chunk_hits = << >>
  /\ rt_result = NoResult
  /\ rt_calls = 0
  /\ rt_consistent = FALSE
  /\ rt_seen = NoStore
  /\ rt_stable = FALSE
  /\ rt_call = NoCallMade

\* the Retriever of a run that calls no retrieve
RetrieveQuiet == top_k = 0 /\ top_sources = 0 /\ RetrieveIdle

\* -------------------------------------------- Grounding Validator: state
NoPayload == [keys |-> {}, ok |-> FALSE, reason |-> "", citations |-> << >>,
              invalid |-> << >>, text |-> << >>, warning |-> << >>]

\* enforce_grounding has not been called
GroundingQuiet ==
  /\ gr_text = << >>
  /\ gr_allowed = {}
  /\ gr_citations_required = FALSE
  /\ gr_strict = FALSE
  /\ gr_payload = NoPayload

\* ---------------------------------------------------------- Chunker: state
NoChunks == [status |-> "none", windows |-> << >>, chunks |-> << >>]

\* chunk_text has not been called
ChunkQuiet ==
  /\ ck_text = << >>
  /\ ck_max_chars = 0
  /\ ck_overlap = 0
  /\ ck_result = NoChunks

\* ------------------------------------------------------------ /chat: state
NoRequest == [message |-> << >>, session_id |-> "", user_id |-> ""]

NoResponse == [status |-> 0, keys |-> {}, answer |-> << >>, citations |-> << >>,
               fallback_reason |-> ""]

\* no /chat request is being handled and none was
ChatIdle ==
  /\ ch_pc = "idle"
  /\ ch_req = NoRequest
  /\ ch_retrieval = EmptyResult
  /\ ch_index_missing = FALSE
  /\ ch_llm_output = << >>
  /\ ch_llm_error_reason = "None"
  /\ ch_grounding = NoPayload
  /\ ch_response = NoResponse

\* the process serves no /chat request
ChatQuiet ==
  /\ settings_citations_required = FALSE
  /\ settings_strict_grounding = FALSE
  /\ settings_char_limit = 0
  /\ ChatIdle

\* the subsystems that take no step in the specifications before /chat
OthersQuiet == ChunkQuiet /\ ChatQuiet

\* --------------------------------------------------------- Quota Tracker
NoCall == [op |-> "none", user |-> "", session |-> "", day |-> 0,
           allowed |-> FALSE, reason |-> ""]

\* limits.py:41-46  SELECT question_count FROM daily_usage ...; 0 if no row
DailyCount(du, d, u) == IF <<d, u>> \in DOMAIN du THEN du[<<d, u>>] ELSE 0

\* CheckReason with the day test off by one (> for >=)
CheckReasonDayOffByOne(du, ss, d, u, s) ==
  IF DailyCount(du, d, u) > q_limit_day THEN "QUESTION_LIMIT_PER_DAY"
  ELSE IF s \notin DOMAIN ss THEN "SESSION_NOT_INITIALIZED"
  ELSE IF ss[s].question_count >= q_limit_session THEN "QUESTION_LIMIT_PER_SESSION"
  ELSE "OK"

\* CheckReason with the session test off by one (> for >=)
CheckReasonSessionOffByOne(du, ss, d, u, s) ==
  IF DailyCount(du, d, u) >= q_limit_day THEN "QUESTION_LIMIT_PER_DAY"
  ELSE IF s \notin DOMAIN ss THEN "SESSION_NOT_INITIALIZED"
  ELSE IF ss[s].question_count > q_limit_session THEN "QUESTION_LIMIT_PER_SESSION"
  ELSE "OK"

\* CheckReason without the test for an unknown session
CheckReasonUnknownSessionPasses(du, ss, d, u, s) ==
  IF DailyCount(du, d, u) >= q_limit_day THEN "QUESTION_LIMIT_PER_DAY"
  ELSE IF s \in DOMAIN ss /\ ss[s].question_count >= q_limit_session
    THEN "QUESTION_LIMIT_PER_SESSION"
  ELSE "OK"

\* limits.py:47-60  the three rejections, in the order the code tests them
CheckReason(du, ss, d, u, s) ==
  IF DailyCount(du, d, u) >= q_limit_day THEN "QUESTION_LIMIT_PER_DAY"
  ELSE IF s \notin DOMAIN ss THEN "SESSION_NOT_INITIALIZED"
  ELSE IF ss[s].question_count >= q_limit_session THEN "QUESTION_LIMIT_PER_SESSION"
  ELSE "OK"

\* limits.py:62-70  INSERT ... VALUES (?, ?, 1) ON CONFLICT DO UPDATE SET count + 1
UpsertDaily(du, d, u) ==
  [k \in DOMAIN du \cup {<<d, u>>} |->
     IF k = <<d, u>> THEN (IF k \in DOMAIN du THEN du[k] + 1 ELSE 1) ELSE du[k]]

\* UPDATE sessions SET question_count = question_count + 1, no WHERE clause
IncrementSessionEveryRow(ss, s) ==
  [k \in DOMAIN ss |-> [ss[k] EXCEPT !.question_count = @ + 1]]

\* limits.py:72-75  UPDATE sessions SET question_count = question_count + 1
IncrementSession(ss, s) ==
  [k \in DOMAIN ss |->
     IF k = s THEN [ss[k] EXCEPT !.question_count = @ + 1] ELSE ss[k]]

\* INSERT ... ON CONFLICT DO UPDATE SET question_count = 0
InsertSessionResetsCount(ss, s, u) ==
  [k \in DOMAIN ss \cup {s} |->
     IF k = s
       THEN [user_id_hash |-> IF s \in DOMAIN ss THEN ss[s].user_id_hash ELSE u,
             question_count |-> 0]
       ELSE ss[k]]

\* INSERT OR REPLACE: the row is written whether or not one exists
InsertSessionReplaces(ss, s, u) ==
  [k \in DOMAIN ss \cup {s} |->
     IF k = s THEN [user_id_hash |-> u, question_count |-> 0] ELSE ss[k]]

\* limits.py:18-24  INSERT INTO sessions (...) VALUES (?, ?, ?, 0) if no row
InsertSession(ss, s, u) ==
  IF s \in DOMAIN ss THEN ss
  ELSE [k \in DOMAIN ss \cup {s} |->
          IF k = s THEN [user_id_hash |-> u, question_count |-> 0] ELSE ss[k]]

\* logger.py:41-59  init_db creates the tables empty; config.py:56-57 reads
\* the limits once
QuotaDbInit ==
  /\ q_limit_day \in Limits
  /\ q_limit_session \in Limits
  /\ today = 1
  /\ daily_usage = EmptyTable
  /\ sessions = EmptyTable

NoLocals == [user |-> "", session |-> "", today |-> 0]

\* no request thread is inside a quota function
QuotaThreadsIdle ==
  /\ pc = [t \in Threads |-> "idle"]
  /\ loc = [t \in Threads |-> NoLocals]
  /\ outcome = [t \in Threads |-> "none"]
  /\ db_writer = "none"
  /\ tx_daily_usage = EmptyTable
  /\ tx_sessions = EmptyTable
  /\ started = 0

QuotaHistInit ==
  /\ last = NoCall
  /\ calls = 0
  /\ dayCalls = [k \in Days \X Users |-> 0]
  /\ dayPre = [k \in Days \X Users |-> TRUE]
  /\ sessCalls = [s \in SessionIds |-> 0]
  /\ sessPre = [s \in SessionIds |-> TRUE]

QuotaInit == QuotaDbInit /\ QuotaHistInit /\ QuotaThreadsIdle

\* the Quota Tracker takes no step
QuotaQuiet == QuotaInit /\ q_limit_day = 0 /\ q_limit_session = 0

\* limits.py:15-26  ensure_session, run to completion
ensure_session(s, u) ==
  /\ sessions' = InsertSession(sessions, s, u)
  /\ last' = [NoCall EXCEPT !.op = "ensure_session", !.session = s]
  /\ UNCHANGED <<q_limit_day, q_limit_session, today, daily_usage, calls,
                 dayCalls, dayPre, sessCalls, sessPre, quotaThreads, nonQuota>>

\* limits.py:29-78  check_and_increment, run to completion (no other call
\* overlaps it)
check_and_increment(u, s) ==
  LET reason == CheckReason(daily_usage, sessions, today, u, s)
      ok == reason = "OK"
      sessionOk == s \in DOMAIN sessions /\ sessions[s].question_count < q_limit_session
      dayOk == DailyCount(daily_usage, today, u) < q_limit_day
  IN
  /\ calls < MaxCalls
  /\ calls' = calls + 1
  /\ daily_usage' = IF ok THEN UpsertDaily(daily_usage, today, u) ELSE daily_usage
  /\ sessions' = IF ok THEN IncrementSession(sessions, s) ELSE sessions
  /\ last' = [op |-> "check_and_increment", user |-> u, session |-> s,
              day |-> today, allowed |-> ok, reason |-> reason]
  /\ dayCalls' = [dayCalls EXCEPT ![<<today, u>>] = @ + 1]
  /\ dayPre' = [dayPre EXCEPT ![<<today, u>>] = @ /\ sessionOk]
  /\ sessCalls' = [sessCalls EXCEPT ![s] = IF s \in DOMAIN sessions THEN @ + 1 ELSE @]
  /\ sessPre' = [sessPre EXCEPT ![s] = IF s \in DOMAIN sessions THEN @ /\ dayOk ELSE @]
  /\ UNCHANGED <<q_limit_day, q_limit_session, today, quotaThreads, nonQuota>>

\* limits.py:11-12  the UTC date moves on to the next day
NextDay ==
  /\ today + 1 \in Days
  /\ today' = today + 1
  /\ UNCHANGED <<q_limit_day, q_limit_session, daily_usage, sessions,
                 quotaHist, quotaThreads, nonQuota>>

QuotaNext ==
  \/ \E s \in SessionIds, u \in Users : ensure_session(s, u)
  \/ \E s \in SessionIds, u \in Users : check_and_increment(u, s)
  \/ NextDay

InitQuota == QuotaInit /\ RateQuiet /\ IngestQuiet /\ RetrieveQuiet /\ GroundingQuiet /\ OthersQuiet

SpecQuota == InitQuota /\ [][QuotaNext]_vars

\* C20: ensure_session creates a Session row with question_count = 0 only
\* when the session_id has no row; called on an existing session it changes
\* nothing, so in any sequence of ensure_session and check_and_increment
\* calls no call of ensure_session resets or overwrites the question_count
\* or the user_id_hash of an existing session.
C20_EnsureSessionKeeps ==
  [][last'.op = "ensure_session" =>
       /\ \A s \in DOMAIN sessions : s \in DOMAIN sessions' /\ sessions'[s] = sessions[s]
       /\ DOMAIN sessions' = DOMAIN sessions \cup {last'.session}
       /\ last'.session \notin DOMAIN sessions =>
            sessions'[last'.session].question_count = 0]_vars

\* ensure_session was called on a session that had counted a question,
\* while another session holds a row that counted none
C20_Witness ==
  /\ last.op = "ensure_session"
  /\ last.session \in DOMAIN sessions
  /\ sessions[last.session].question_count > 0
  /\ \E s \in DOMAIN sessions : sessions[s].question_count = 0

\* the step is a call of check_and_increment
CheckAndIncrementStep == calls' = calls + 1

\* C21: over every sequence of quota operations (ensure_session, allowed and
\* rejected check_and_increment calls) no Session row disappears and no
\* question_count decreases, and no DailyUsage row disappears and no count of
\* a (date, user hash) decreases.
C21_CountsNeverDecrease ==
  [][/\ \A s \in DOMAIN sessions :
          /\ s \in DOMAIN sessions'
          /\ sessions'[s].question_count >= sessions[s].question_count
     /\ \A k \in DOMAIN daily_usage :
          /\ k \in DOMAIN daily_usage'
          /\ daily_usage'[k] >= daily_usage[k]]_vars

\* a call was rejected for a user and a session that had both counted
\* two questions
C21_Witness ==
  /\ last.op = "check_and_increment"
  /\ ~last.allowed
  /\ last.session \in DOMAIN sessions
  /\ sessions[last.session].question_count >= 2
  /\ <<last.day, last.user>> \in DOMAIN daily_usage
  /\ daily_usage[<<last.day, last.user>>] >= 2

\* C24: check_and_increment on a session_id that has no Session row, for a
\* user below the day limit, rejects with reason SESSION_NOT_INITIALIZED and
\* creates or changes no DailyUsage row and no Session row.
C24_UnknownSession ==
  [][CheckAndIncrementStep
       /\ last'.session \notin DOMAIN sessions
       /\ DailyCount(daily_usage, today, last'.user) < q_limit_day =>
         /\ ~last'.allowed
         /\ last'.reason = "SESSION_NOT_INITIALIZED"
         /\ sessions' = sessions
         /\ daily_usage' = daily_usage]_vars

\* the call was rejected for the unknown session while the user had counted
\* a question in another session and stayed below the day limit
C24_Witness ==
  /\ last.op = "check_and_increment"
  /\ last.reason = "SESSION_NOT_INITIALIZED"
  /\ last.session \notin DOMAIN sessions
  /\ <<last.day, last.user>> \in DOMAIN daily_usage
  /\ daily_usage[<<last.day, last.user>>] < q_limit_day

\* C27: check_and_increment changes the quota state if and only if it
\* returns allowed: an allowed call increases today's DailyUsage count of the
\* user hash by exactly 1 (creating it at 1 if absent) and the Session's
\* question_count by exactly 1 and touches no other row; a rejected call
\* leaves every DailyUsage and Session row unchanged.
C27_ChangesIffAllowed ==
  [][CheckAndIncrementStep =>
       LET k == <<today, last'.user>>
           s == last'.session
       IN IF last'.allowed
            THEN /\ DOMAIN daily_usage' = DOMAIN daily_usage \cup {k}
                 /\ daily_usage'[k] = DailyCount(daily_usage, today, last'.user) + 1
                 /\ \A j \in DOMAIN daily_usage \ {k} : daily_usage'[j] = daily_usage[j]
                 /\ s \in DOMAIN sessions
                 /\ DOMAIN sessions' = DOMAIN sessions
                 /\ sessions'[s] =
                      [sessions[s] EXCEPT !.question_count = @ + 1]
                 /\ \A r \in DOMAIN sessions \ {s} : sessions'[r] = sessions[r]
            ELSE /\ daily_usage' = daily_usage
                 /\ sessions' = sessions]_vars

\* an allowed call raised a DailyUsage count from 1 to 2 while another user
\* and another session had rows of their own
C27_Witness ==
  /\ last.op = "check_and_increment"
  /\ last.allowed
  /\ daily_usage[<<last.day, last.user>>] = 2
  /\ \E k \in DOMAIN daily_usage : k # <<last.day, last.user>>
  /\ \E r \in DOMAIN sessions : r # last.session

Min(a, b) == IF a <= b THEN a ELSE b

\* The most recent operation was a check_and_increment of user u on day d
LastCallOfDay(d, u) ==
  last.op = "check_and_increment" /\ last.day = d /\ last.user = u

\* The most recent operation was a check_and_increment on session s (s has a
\* Session row now, so it had one then: ensure_session would be more recent)
LastCallOfSession(s) ==
  last.op = "check_and_increment" /\ last.session = s

\* The day-limit behaviour of C2, with the rejection reason left open:
\* for a (day, user) whose calls all found an initialized session below its
\* limit, the number of allowed calls is min(calls, day limit), call k is
\* allowed iff k <= day limit, and a rejected call carries `reason`.
DayLimitRule(reason) ==
  \A k \in Days \X Users :
    dayPre[k] =>
      /\ DailyCount(daily_usage, k[1], k[2]) = Min(dayCalls[k], q_limit_day)
      /\ LastCallOfDay(k[1], k[2]) =>
            /\ last.allowed <=> dayCalls[k] <= q_limit_day
            /\ ~last.allowed => last.reason = reason

\* C2 (as stated): sequentially, for one user hash on one day, starting with
\* no DailyUsage row and the session limit never reached, check_and_increment
\* with day_limit = L allows exactly the first L calls and rejects call L+1
\* and every later call that day with reason DAY_LIMIT.
C2_AsStated == DayLimitRule("DAY_LIMIT")

\* C2 (amended): the same, the rejection reason being the code's
\* QUESTION_LIMIT_PER_DAY.
C2_DayLimit == DayLimitRule("QUESTION_LIMIT_PER_DAY")

\* C2 witness: call L+1 (L >= 1) of a user on a day has just been rejected,
\* every call of that user and day having met the session precondition.
C2_Witness ==
  \E k \in Days \X Users :
    /\ dayPre[k] /\ q_limit_day >= 1 /\ dayCalls[k] = q_limit_day + 1
    /\ LastCallOfDay(k[1], k[2]) /\ ~last.allowed

\* The session-limit behaviour of C3, with the rejection reason left open:
\* for an initialized session whose calls all found the day limit not
\* reached, question_count is min(calls, session limit), call k is allowed
\* iff k <= session limit, and a rejected call carries `reason`.
SessionLimitRule(reason) ==
  \A s \in DOMAIN sessions :
    sessPre[s] =>
      /\ sessions[s].question_count = Min(sessCalls[s], q_limit_session)
      /\ LastCallOfSession(s) =>
            /\ last.allowed <=> sessCalls[s] <= q_limit_session
            /\ ~last.allowed => last.reason = reason

\* C3 (as stated): sequentially, for one initialized session starting at
\* question_count 0 and the day limit never reached, check_and_increment with
\* session_limit = L allows exactly the first L calls and rejects call L+1
\* and every later call on that session with reason SESSION_LIMIT.
C3_AsStated == SessionLimitRule("SESSION_LIMIT")

\* C3 (amended): the same, the rejection reason being the code's
\* QUESTION_LIMIT_PER_SESSION.
C3_SessionLimit == SessionLimitRule("QUESTION_LIMIT_PER_SESSION")

\* C3 witness: call L+1 (L >= 1) on an initialized session has just been
\* rejected, every call on it having found the day limit not reached.
C3_Witness ==
  \E s \in DOMAIN sessions :
    /\ sessPre[s] /\ q_limit_session >= 1 /\ sessCalls[s] = q_limit_session + 1
    /\ LastCallOfSession(s) /\ ~last.allowed

\* ------------------------------------------- Quota Tracker, concurrent
\* /chat is a synchronous handler (main.py:76-77): the server runs each
\* request on a worker thread, so calls of the quota functions interleave at
\* their SQL statements.  sqlite3 opens a transaction implicitly before the
\* first INSERT/UPDATE of a connection and not before a SELECT: the SELECTs
\* read the committed tables, the first write takes the database's write
\* lock, and commit() publishes the writes and releases it.
MaxStarted == 3

Finish(t, result) ==
  /\ pc' = [pc EXCEPT ![t] = "idle"]
  /\ loc' = [loc EXCEPT ![t] = NoLocals]
  /\ outcome' = [outcome EXCEPT ![t] = result]

Goto(t, label) ==
  /\ pc' = [pc EXCEPT ![t] = label]
  /\ UNCHANGED <<loc, outcome>>

\* main.py:104  a request thread calls ensure_session
EsStart(t, s, u) ==
  /\ pc[t] = "idle" /\ started < MaxStarted
  /\ started' = started + 1
  /\ pc' = [pc EXCEPT ![t] = "es_select"]
  /\ loc' = [loc EXCEPT ![t] = [user |-> u, session |-> s, today |-> 0]]
  /\ outcome' = [outcome EXCEPT ![t] = "none"]
  /\ UNCHANGED <<quotaCfg, quotaDb, quotaHist, db_writer, tx_daily_usage, tx_sessions, nonQuota>>

\* limits.py:18-20, 25-26  SELECT the session row; if it is there, commit
\* nothing and return
EsSelect(t) ==
  /\ pc[t] = "es_select"
  /\ IF loc[t].session \in DOMAIN sessions
       THEN Finish(t, "done")
       ELSE Goto(t, "es_insert")
  /\ UNCHANGED <<quotaCfg, quotaDb, quotaHist, db_writer, tx_daily_usage, tx_sessions, started, nonQuota>>

\* limits.py:21-24  INSERT INTO sessions: waits for the write lock; the
\* primary key rejects a session_id that has been inserted meanwhile
EsInsert(t) ==
  /\ pc[t] = "es_insert" /\ db_writer = "none"
  /\ IF loc[t].session \in DOMAIN sessions
       THEN /\ Finish(t, "IntegrityError")
            /\ UNCHANGED <<db_writer, tx_daily_usage, tx_sessions>>
       ELSE /\ Goto(t, "es_commit")
            /\ db_writer' = t
            /\ tx_daily_usage' = daily_usage
            /\ tx_sessions' = InsertSession(sessions, loc[t].session, loc[t].user)
  /\ UNCHANGED <<quotaCfg, quotaDb, quotaHist, started, nonQuota>>

\* limits.py:25-26  commit the inserted row
EsCommit(t) ==
  /\ pc[t] = "es_commit"
  /\ sessions' = tx_sessions
  /\ db_writer' = "none"
  /\ tx_daily_usage' = EmptyTable
  /\ tx_sessions' = EmptyTable
  /\ Finish(t, "done")
  /\ UNCHANGED <<quotaCfg, today, daily_usage, quotaHist, started, nonQuota>>

\* main.py:117, limits.py:36  a request thread calls check_and_increment
CiStart(t, u, s) ==
  /\ pc[t] = "idle" /\ started < MaxStarted
  /\ started' = started + 1
  /\ pc' = [pc EXCEPT ![t] = "select_daily"]
  /\ loc' = [loc EXCEPT ![t] = [user |-> u, session |-> s, today |-> today]]
  /\ outcome' = [outcome EXCEPT ![t] = "none"]
  /\ UNCHANGED <<quotaCfg, quotaDb, quotaHist, db_writer, tx_daily_usage, tx_sessions, nonQuota>>

\* limits.py:41-49  read the day's count and test it
CiSelectDaily(t) ==
  /\ pc[t] = "select_daily"
  /\ IF DailyCount(daily_usage, loc[t].today, loc[t].user) >= q_limit_day
       THEN Finish(t, "QUESTION_LIMIT_PER_DAY")
       ELSE Goto(t, "select_session")
  /\ UNCHANGED <<quotaCfg, quotaDb, quotaHist, db_writer, tx_daily_usage, tx_sessions, started, nonQuota>>

\* limits.py:52-60  read the session's count and test it
CiSelectSession(t) ==
  /\ pc[t] = "select_session"
  /\ IF loc[t].session \notin DOMAIN sessions
       THEN Finish(t, "SESSION_NOT_INITIALIZED")
       ELSE IF sessions[loc[t].session].question_count >= q_limit_session
         THEN Finish(t, "QUESTION_LIMIT_PER_SESSION")
         ELSE Goto(t, "upsert_daily")
  /\ UNCHANGED <<quotaCfg, quotaDb, quotaHist, db_writer, tx_daily_usage, tx_sessions, started, nonQuota>>

\* limits.py:62-70  the upsert opens the transaction: it waits for the write
\* lock and increments the count the table holds now
CiUpsertDaily(t) ==
  /\ pc[t] = "upsert_daily" /\ db_writer = "none"
  /\ db_writer' = t
  /\ tx_daily_usage' = UpsertDaily(daily_usage, loc[t].today, loc[t].user)
  /\ tx_sessions' = sessions
  /\ Goto(t, "update_session")
  /\ UNCHANGED <<quotaCfg, quotaDb, quotaHist, started, nonQuota>>

\* limits.py:72-75  UPDATE sessions, in the same transaction
CiUpdateSession(t) ==
  /\ pc[t] = "update_session"
  /\ tx_sessions' = IncrementSession(tx_sessions, loc[t].session)
  /\ Goto(t, "commit")
  /\ UNCHANGED <<quotaCfg, quotaDb, quotaHist, db_writer, tx_daily_usage, started, nonQuota>>

\* limits.py:76-78  commit both writes and return (True, "OK")
CiCommit(t) ==
  /\ pc[t] = "commit"
  /\ daily_usage' = tx_daily_usage
  /\ sessions' = tx_sessions
  /\ db_writer' = "none"
  /\ tx_daily_usage' = EmptyTable
  /\ tx_sessions' = EmptyTable
  /\ Finish(t, "OK")
  /\ UNCHANGED <<quotaCfg, today, quotaHist, started, nonQuota>>

\* limits.py:21, 62  a write that finds the database locked by another
\* connection for longer than sqlite3's busy timeout raises OperationalError
Busy(t) ==
  /\ pc[t] \in {"es_insert", "upsert_daily"}
  /\ db_writer \notin {"none", t}
  /\ Finish(t, "OperationalError")
  /\ UNCHANGED <<quotaCfg, quotaDb, quotaHist, db_writer, tx_daily_usage, tx_sessions, started, nonQuota>>

\* limits.py:11-12  midnight UTC passes while requests are in flight
Midnight ==
  /\ today + 1 \in Days
  /\ today' = today + 1
  /\ UNCHANGED <<quotaCfg, daily_usage, sessions, quotaHist, quotaThreads, nonQuota>>

QuotaConcNext ==
  \/ \E t \in Threads, s \in SessionIds, u \in Users : EsStart(t, s, u)
  \/ \E t \in Threads : EsSelect(t)
  \/ \E t \in Threads : EsInsert(t)
  \/ \E t \in Threads : EsCommit(t)
  \/ \E t \in Threads, s \in SessionIds, u \in Users : CiStart(t, u, s)
  \/ \E t \in Threads : CiSelectDaily(t)
  \/ \E t \in Threads : CiSelectSession(t)
  \/ \E t \in Threads : CiUpsertDaily(t)
  \/ \E t \in Threads : CiUpdateSession(t)
  \/ \E t \in Threads : CiCommit(t)
  \/ \E t \in Threads : Busy(t)
  \/ Midnight

SpecQuotaConc == InitQuota /\ [][QuotaConcNext]_vars

\* C1: for any interleaving of concurrent check_and_increment calls, the read
\* of the counters and the increment behave as one atomic step, so the
\* DailyUsage count never exceeds day_limit and the Session question_count
\* never exceeds session_limit.
C1_NeverPastLimit ==
  /\ \A k \in DOMAIN daily_usage : daily_usage[k] <= q_limit_day
  /\ \A s \in DOMAIN sessions : sessions[s].question_count <= q_limit_session

\* C29: two concurrent ensure_session calls for the same not-yet-existing
\* session_id both complete without error and leave exactly one Session row
\* with question_count = 0: no interleaving of the existence check and the
\* insert makes the second insert fail on the primary key.
C29_ConcurrentEnsure ==
  \A t \in Threads :
    /\ outcome[t] # "IntegrityError"
    /\ pc[t] = "es_insert" /\ db_writer = "none" =>
         loc[t].session \notin DOMAIN sessions

\* ---------------------------------------------------------- Rate Limiter
\* config.py:80-82  the switch, the window (seconds) and the request cap
RateInit ==
  /\ ip_rate_limit_enabled \in BOOLEAN
  /\ window \in 0..MaxWindow
  /\ max_requests \in 0..MaxRequests
  /\ RateStart

\* rate_limit.py:26  _REQUEST_HISTORY.setdefault(key, deque())
SetDefault(h, k) == IF k \in DOMAIN h THEN h[k] ELSE << >>

\* rate_limit.py:27-28  while dq and now - dq[0] > window: dq.popleft()
RECURSIVE Prune(_, _)
Prune(dq, t) ==
  IF dq # << >> /\ t - Head(dq) > window THEN Prune(Tail(dq), t) ELSE dq

\* Rejects with the count test off by one (> for >=)
RejectsOffByOne(dq) == Len(dq) > max_requests

\* rate_limit.py:29  if len(dq) >= max_requests: ... raise HTTPException(429)
Rejects(dq) == Len(dq) >= max_requests

\* AfterCheck recording the time of a rejected request too
AfterCheckAlwaysAppends(dq, t) == Append(dq, t)

\* rate_limit.py:29-44  a rejected check leaves the pruned deque as it is, an
\* admitted one appends the current time
AfterCheck(dq, t) == IF Rejects(dq) THEN dq ELSE Append(dq, t)

Store(h, k, dq) == [x \in DOMAIN h \cup {k} |-> IF x = k THEN dq ELSE h[x]]

\* the admitted timestamps of key k that lie within `window` of time t
InWindow(k, t) == {i \in DOMAIN admitted[k] : t - admitted[k][i] <= window}

\* rate_limit.py:17-44  enforce_rate_limit for a request of key k, run to
\* completion: return at once when the limiter is off; else prune, then
\* either raise 429 or append the current time
RateLimitCheck(k) ==
  LET dq == Prune(SetDefault(history, k), now)
      ok == ~ip_rate_limit_enabled \/ ~Rejects(dq)
  IN
  /\ rl_checks < MaxChecks
  /\ rl_checks' = rl_checks + 1
  /\ history' = IF ~ip_rate_limit_enabled THEN history
                ELSE Store(history, k, AfterCheck(dq, now))
  /\ admitted' = IF ok THEN [admitted EXCEPT ![k] = Append(@, now)] ELSE admitted
  /\ rejectedSince' = [rejectedSince EXCEPT ![k] = ~ok]
  /\ rl_last' = [key |-> k, allowed |-> ok,
                 priorInWindow |-> Cardinality(InWindow(k, now)),
                 rejectedBefore |-> rejectedSince[k]]
  /\ UNCHANGED <<rateCfg, now, rateThreads>>

\* enforce_rate_limit called on its own: nothing outside the limiter moves
enforce_rate_limit(k) == RateLimitCheck(k) /\ UNCHANGED nonRate

\* rate_limit.py:23  time.time() has moved on by a second
Tick ==
  /\ now < MaxTime
  /\ now' = now + 1
  /\ UNCHANGED <<rateCfg, history, rateHist, rateThreads, nonRate>>

RateNext ==
  \/ \E k \in RateKeys : enforce_rate_limit(k)
  \/ Tick

InitRate == QuotaQuiet /\ RateInit /\ IngestQuiet /\ RetrieveQuiet /\ GroundingQuiet /\ OthersQuiet

SpecRate == InitRate /\ [][RateNext]_vars

\* The sliding-window bound: no closed interval of length `window` holds more
\* than max_requests admitted requests of one key, and a request that finds
\* max_requests admitted requests of its key within the window is rejected.
SlidingWindowRule ==
  /\ \A k \in RateKeys, a \in 0..MaxTime :
       Cardinality({i \in DOMAIN admitted[k] :
                      a <= admitted[k][i] /\ admitted[k][i] <= a + window})
         <= max_requests
  /\ (rl_last.key \in RateKeys /\ rl_last.priorInWindow >= max_requests)
       => ~rl_last.allowed

\* C4 (as stated): for every (client identity, endpoint) key, under
\* sequential checks with a non-decreasing clock, the rate limiter admits at
\* most max_requests requests in any time interval of length window: the
\* (max_requests+1)-th request arriving within the window is rejected.
C4_AsStated == SlidingWindowRule

\* C4 (amended): the same, when the limiter is switched on
\* (ip_rate_limit_enabled); switched off, every request is admitted.
C4_SlidingWindow == ip_rate_limit_enabled => SlidingWindowRule

\* C4 witness: with the limiter on and a cap of at least 2, a request is
\* rejected because it arrives after, and within the window of, max_requests
\* admitted requests of its key.
C4_Witness ==
  /\ ip_rate_limit_enabled /\ max_requests >= 2
  /\ rl_last.key \in RateKeys /\ ~rl_last.allowed
  /\ rl_last.priorInWindow = max_requests
  /\ admitted[rl_last.key][1] < now

\* C5 (as stated): a rate-limited key always recovers: once more than window
\* seconds have elapsed since the admitted requests of a key, the next
\* request for that key is allowed, however many were rejected in between.
C5_AsStated ==
  (rl_last.key \in RateKeys /\ rl_last.priorInWindow = 0) => rl_last.allowed

\* C5 (amended): the same, provided max_requests >= 1 (with a cap of 0 every
\* request is rejected).
C5_Recovers == max_requests >= 1 => C5_AsStated

\* C5 witness: a key with admitted requests was rejected, more than window
\* seconds passed since its admitted requests, and its next request is
\* admitted.
C5_Witness ==
  /\ ip_rate_limit_enabled
  /\ rl_last.key \in RateKeys /\ rl_last.allowed
  /\ rl_last.rejectedBefore /\ rl_last.priorInWindow = 0
  /\ Len(admitted[rl_last.key]) >= 2

\* ---------------------------------------------- Rate Limiter, concurrent
\* enforce_rate_limit is a synchronous dependency of synchronous handlers
\* (main.py:76-77, routes_feedback.py:25): the server runs it on worker
\* threads.  It takes no lock: the interpreter makes each deque operation
\* atomic, and a thread may be preempted between any two of them.
RlFinish(t, result) ==
  /\ rl_pc' = [rl_pc EXCEPT ![t] = "idle"]
  /\ rl_loc' = [rl_loc EXCEPT ![t] = NoRateLocals]
  /\ rl_outcome' = [rl_outcome EXCEPT ![t] = result]

RlGoto(t, label) ==
  /\ rl_pc' = [rl_pc EXCEPT ![t] = label]
  /\ UNCHANGED <<rl_loc, rl_outcome>>

\* rate_limit.py:18-25  return at once when the limiter is off; else take
\* the key and read the clock
RlStart(t, k) ==
  /\ rl_pc[t] = "idle" /\ rl_checks < MaxChecks
  /\ rl_checks' = rl_checks + 1
  /\ IF ~ip_rate_limit_enabled
       THEN /\ RlFinish(t, "allowed")
            /\ admitted' = [admitted EXCEPT ![k] = Append(@, now)]
       ELSE /\ rl_pc' = [rl_pc EXCEPT ![t] = "setdefault"]
            /\ rl_loc' = [rl_loc EXCEPT ![t] = [key |-> k, now |-> now]]
            /\ rl_outcome' = [rl_outcome EXCEPT ![t] = "none"]
            /\ UNCHANGED admitted
  /\ UNCHANGED <<rateCfg, now, history, rejectedSince, rl_last, nonRate>>

\* rate_limit.py:26  dq = _REQUEST_HISTORY.setdefault(key, deque())
RlSetDefault(t) ==
  /\ rl_pc[t] = "setdefault"
  /\ history' = Store(history, rl_loc[t].key, SetDefault(history, rl_loc[t].key))
  /\ RlGoto(t, "while_dq")
  /\ UNCHANGED <<rateCfg, now, rateHist, nonRate>>

\* rate_limit.py:27  while dq ...
RlWhileDq(t) ==
  /\ rl_pc[t] = "while_dq"
  /\ IF history[rl_loc[t].key] = << >>
       THEN RlGoto(t, "len_test")
       ELSE RlGoto(t, "while_head")
  /\ UNCHANGED <<rateCfg, now, history, rateHist, nonRate>>

\* rate_limit.py:27  ... and now - dq[0] > window; dq[0] raises IndexError
\* if another thread has emptied the deque since the test of dq
RlWhileHead(t) ==
  /\ rl_pc[t] = "while_head"
  /\ IF history[rl_loc[t].key] = << >>
       THEN RlFinish(t, "IndexError")
       ELSE IF rl_loc[t].now - Head(history[rl_loc[t].key]) > window
         THEN RlGoto(t, "popleft")
         ELSE RlGoto(t, "len_test")
  /\ UNCHANGED <<rateCfg, now, history, rateHist, nonRate>>

\* rate_limit.py:28  dq.popleft(): removes whatever is leftmost now
RlPopleft(t) ==
  /\ rl_pc[t] = "popleft"
  /\ IF history[rl_loc[t].key] = << >>
       THEN /\ RlFinish(t, "IndexError")
            /\ UNCHANGED history
       ELSE /\ history' = [history EXCEPT ![rl_loc[t].key] = Tail(@)]
            /\ RlGoto(t, "while_dq")
  /\ UNCHANGED <<rateCfg, now, rateHist, nonRate>>

\* rate_limit.py:29-43  if len(dq) >= max_requests: log and raise 429
RlLenTest(t) ==
  /\ rl_pc[t] = "len_test"
  /\ IF Rejects(history[rl_loc[t].key])
       THEN RlFinish(t, "rejected")
       ELSE RlGoto(t, "append")
  /\ UNCHANGED <<rateCfg, now, history, rateHist, nonRate>>

\* rate_limit.py:44  dq.append(now): the request is admitted
RlAppend(t) ==
  /\ rl_pc[t] = "append"
  /\ history' = [history EXCEPT ![rl_loc[t].key] = Append(@, rl_loc[t].now)]
  /\ admitted' = [admitted EXCEPT ![rl_loc[t].key] = Append(@, rl_loc[t].now)]
  /\ RlFinish(t, "allowed")
  /\ UNCHANGED <<rateCfg, now, rejectedSince, rl_last, rl_checks, nonRate>>

RateConcNext ==
  \/ \E t \in Threads, k \in RateKeys : RlStart(t, k)
  \/ \E t \in Threads : RlSetDefault(t)
  \/ \E t \in Threads : RlWhileDq(t)
  \/ \E t \in Threads : RlWhileHead(t)
  \/ \E t \in Threads : RlPopleft(t)
  \/ \E t \in Threads : RlLenTest(t)
  \/ \E t \in Threads : RlAppend(t)
  \/ Tick

SpecRateConc == InitRate /\ [][RateConcNext]_vars

\* Range(q): the elements of sequence q
Range(q) == {q[i] : i \in DOMAIN q}

\* C6: concurrent enforce_rate_limit checks on the same key are serialized:
\* for every interleaving of the prune, count test and append steps, no
\* timestamp update is lost (an admitted timestamp still within the window
\* is in the key's record) and the number of requests admitted within one
\* window never exceeds max_requests.  (Stated for the limiter switched on.)
C6_Serialized ==
  ip_rate_limit_enabled =>
    /\ \A k \in RateKeys, a \in 0..MaxTime :
         Cardinality({i \in DOMAIN admitted[k] :
                        a <= admitted[k][i] /\ admitted[k][i] <= a + window})
           <= max_requests
    /\ \A k \in RateKeys : \A i \in DOMAIN admitted[k] :
         now - admitted[k][i] <= window =>
           k \in DOMAIN history /\ admitted[k][i] \in Range(history[k])

\* ----------------------------------------------------- Ingestion Pipeline
\* The corpus directory as a run finds it (ingest.py:29-31, 87-88): its
\* *.txt files in sorted order.  A file is represented by what the run takes
\* from it: the number of chunks chunk_text returns for its body (0 for a
\* blank body, ingest.py:136-140).  The text of chunk j of file i is the
\* token <<ver, i, j>>, ver being the edition of the directory's contents.
Versions == {"v1", "v2"}

RECURSIVE Sum(_)
Sum(q) == IF q = << >> THEN 0 ELSE Head(q) + Sum(Tail(q))

SizeLists ==
  UNION {[1..n -> 0..MaxRows] : n \in 0..MaxFiles}

Corpora ==
  {[ver |-> v, sizes |-> z] : v \in Versions,
                              z \in {q \in SizeLists : Sum(q) <= MaxRows}}

\* embeddings.py:22-28, ingest.py:161-163  the normalized vector the
\* Embedding Client returns for a text
Embed(text) == [of |-> text]

\* ingest.py:112  doc_id = str(uuid.uuid4()): fresh for every file of every run
DocId(g, i) == <<g, i>>

\* ingest.py:140-150  the chunk_meta entries of file i, in chunk order
FileMeta(g, corpus, i) ==
  [j \in 1..corpus.sizes[i] |->
     [chunk_id |-> <<DocId(g, i), j - 1>>, doc_id |-> DocId(g, i),
      chunk_index |-> j - 1]]

\* ingest.py:140-143  the chunk texts of file i, in chunk order
FileTexts(corpus, i) ==
  [j \in 1..corpus.sizes[i] |-> <<corpus.ver, i, j>>]

\* ingest.py:106-151  chunk_meta and chunk_texts accumulated over files 1..n
RECURSIVE AllMeta(_, _, _)
AllMeta(g, corpus, n) ==
  IF n = 0 THEN << >> ELSE AllMeta(g, corpus, n - 1) \o FileMeta(g, corpus, n)

RECURSIVE AllTexts(_, _)
AllTexts(corpus, n) ==
  IF n = 0 THEN << >> ELSE AllTexts(corpus, n - 1) \o FileTexts(corpus, n)

\* ingest.py:34-57, 74  the source_url header of file i, None when absent:
\* the files of edition v1 carry none, those of edition v2 all carry the
\* same one
None == "None"

SourceUrl(corpus, i) == IF corpus.ver = "v1" THEN None ELSE "https://source"

\* ingest.py:115-134  one Document row per file
DocumentRows(g, corpus) ==
  {[doc_id |-> DocId(g, i), source_url |-> SourceUrl(corpus, i)] :
     i \in 1..Len(corpus.sizes)}

\* ingest.py:170-183  one Chunk row per chunk_meta entry, embedding_index
\* being its position in the batch
ChunkRows(meta, texts) ==
  {[chunk_id |-> meta[n].chunk_id, doc_id |-> meta[n].doc_id,
    chunk_index |-> meta[n].chunk_index, text |-> texts[n],
    embedding_index |-> n - 1] : n \in DOMAIN meta}

\* IngestStart without the early return for an empty corpus directory
IngestStartAlwaysResets(corpus) ==
  /\ ing_pc = "idle"
  /\ ing_start' = [documents |-> documents, chunks |-> chunks,
                   index_file |-> index_file]
  /\ ing_files' = corpus
  /\ ing_chunk_texts' = << >>
  /\ ing_chunk_meta' = << >>
  /\ ing_vectors' = << >>
  /\ gen < MaxRuns
  /\ gen' = gen + 1
  /\ ing_pc' = "reset"
  /\ ing_result' = [status |-> "running", docs |-> 0, chunks |-> 0]
  /\ UNCHANGED <<storeVars, nonIngest>>

\* ingest.py:84-90  a run starts and lists the corpus directory; with no
\* file it returns {"docs": 0, "chunks": 0} at once
IngestStart(corpus) ==
  /\ ing_pc = "idle"
  /\ ing_start' = [documents |-> documents, chunks |-> chunks,
                   index_file |-> index_file]
  /\ ing_files' = corpus
  /\ ing_chunk_texts' = << >>
  /\ ing_chunk_meta' = << >>
  /\ ing_vectors' = << >>
  /\ IF corpus.sizes = << >>
       THEN /\ ing_result' = [status |-> "ok", docs |-> 0, chunks |-> 0]
            /\ UNCHANGED <<ing_pc, gen>>
       ELSE /\ gen < MaxRuns
            /\ gen' = gen + 1
            /\ ing_pc' = "reset"
            /\ ing_result' = [status |-> "running", docs |-> 0, chunks |-> 0]
  /\ UNCHANGED <<storeVars, nonIngest>>

\* IngestReset forgetting to delete the documents table
IngestResetKeepsDocuments ==
  /\ ing_pc = "reset"
  /\ chunks' = {}
  /\ ing_pc' = "documents"
  /\ UNCHANGED <<documents, index_file, ingestLocals, gen, ing_result, ing_start, nonIngest>>

\* ingest.py:97-100  DELETE FROM chunks; DELETE FROM documents; commit
IngestReset ==
  /\ ing_pc = "reset"
  /\ chunks' = {}
  /\ documents' = {}
  /\ ing_pc' = "documents"
  /\ UNCHANGED <<index_file, ingestLocals, gen, ing_result, ing_start, nonIngest>>

\* ingest.py:102-153  read every file, insert its Document row, accumulate
\* its chunks; commit
IngestDocuments ==
  /\ ing_pc = "documents"
  /\ documents' = documents \cup DocumentRows(gen, ing_files)
  /\ ing_chunk_texts' = AllTexts(ing_files, Len(ing_files.sizes))
  /\ ing_chunk_meta' = AllMeta(gen, ing_files, Len(ing_files.sizes))
  /\ ing_pc' = IF ing_chunk_texts' = << >> THEN "no_chunks" ELSE "embed"
  /\ UNCHANGED <<chunks, index_file, ing_files, ing_vectors, gen, ing_result,
                 ing_start, nonIngest>>

\* IngestNoChunks leaving the index file where it is
IngestNoChunksKeepsIndex ==
  /\ ing_pc = "no_chunks"
  /\ ing_result' = [status |-> "ok", docs |-> Len(ing_files.sizes), chunks |-> 0]
  /\ ing_pc' = "idle"
  /\ UNCHANGED <<storeVars, ingestLocals, gen, ing_start, nonIngest>>

\* ingest.py:155-159  no chunk at all: delete the index file if there is one
\* and return
IngestNoChunks ==
  /\ ing_pc = "no_chunks"
  /\ index_file' = NoIndex
  /\ ing_result' = [status |-> "ok", docs |-> Len(ing_files.sizes), chunks |-> 0]
  /\ ing_pc' = "idle"
  /\ UNCHANGED <<documents, chunks, ingestLocals, gen, ing_start, nonIngest>>

\* ingest.py:161-164  the Embedding Client returns one vector per chunk
\* text, in order; the vectors are normalized
IngestEmbed ==
  /\ ing_pc = "embed"
  /\ ing_vectors' = [n \in DOMAIN ing_chunk_texts |-> Embed(ing_chunk_texts[n])]
  /\ ing_pc' = "write_index"
  /\ UNCHANGED <<storeVars, ing_files, ing_chunk_texts, ing_chunk_meta, gen,
                 ing_result, ing_start, nonIngest>>

\* IngestEmbedFails undoing the Document rows of the run
IngestEmbedFailsRollsBack ==
  /\ ing_pc = "embed"
  /\ documents' = {}
  /\ ing_result' = [status |-> "error", docs |-> 0, chunks |-> 0]
  /\ ing_pc' = "idle"
  /\ UNCHANGED <<chunks, index_file, ingestLocals, gen, ing_start, nonIngest>>

\* ingest.py:161, embeddings.py:16-27  the Embedding Client call raises: the
\* exception leaves ingest_txt_corpus (routes_admin.py:18-21 turns it into a
\* 500)
IngestEmbedFails ==
  /\ ing_pc = "embed"
  /\ ing_result' = [status |-> "error", docs |-> 0, chunks |-> 0]
  /\ ing_pc' = "idle"
  /\ UNCHANGED <<storeVars, ingestLocals, gen, ing_start, nonIngest>>

\* ingest.py:166-168  build the flat index in batch order and write the file
IngestWriteIndex ==
  /\ ing_pc = "write_index"
  /\ index_file' = [exists |-> TRUE, vectors |-> ing_vectors]
  /\ ing_pc' = "chunks"
  /\ UNCHANGED <<documents, chunks, ingestLocals, gen, ing_result, ing_start,
                 nonIngest>>

\* ingest.py:170-192  insert the Chunk rows, commit, return the counts
IngestChunks ==
  /\ ing_pc = "chunks"
  /\ chunks' = chunks \cup ChunkRows(ing_chunk_meta, ing_chunk_texts)
  /\ ing_result' = [status |-> "ok", docs |-> Len(ing_files.sizes),
                    chunks |-> Len(ing_chunk_texts)]
  /\ ing_pc' = "idle"
  /\ UNCHANGED <<documents, index_file, ingestLocals, gen, ing_start, nonIngest>>

IngestNext ==
  \/ \E corpus \in Corpora : IngestStart(corpus)
  \/ IngestReset
  \/ IngestDocuments
  \/ IngestNoChunks
  \/ IngestEmbed
  \/ IngestEmbedFails
  \/ IngestWriteIndex
  \/ IngestChunks

InitIngest == QuotaQuiet /\ RateQuiet /\ IngestQuiet /\ RetrieveQuiet /\ GroundingQuiet /\ OthersQuiet

SpecIngest == InitIngest /\ [][IngestNext]_vars

\* the number of vectors in the persisted index (none without a file)
IndexSize == IF index_file.exists THEN Len(index_file.vectors) ELSE 0

\* the run a row was written by
RowGens == {d.doc_id[1] : d \in documents} \cup {c.doc_id[1] : c \in chunks}

\* Chunk rows and index rows correspond one to one
Lockstep ==
  /\ \A c1, c2 \in chunks : c1.embedding_index = c2.embedding_index => c1 = c2
  /\ {c.embedding_index : c \in chunks} = 0..(Cardinality(chunks) - 1)
  /\ Cardinality(chunks) = IndexSize
  /\ \A c \in chunks : index_file.vectors[c.embedding_index + 1] = Embed(c.text)

\* C7: after any sequence of ingestion runs (successful, no-op, or aborted
\* by an embedding failure), whenever no run is in progress, the
\* embedding_index values of the Chunk rows are unique and exactly 0..N-1,
\* N is the number of vectors in the persisted index, and row i of the index
\* is the vector of the chunk whose embedding_index is i.
C7_Lockstep == ing_pc = "idle" => Lockstep

\* C8: ingestion is a full replace: whenever a run finds at least one corpus
\* file, every Document and Chunk row that existed before the run is deleted
\* before any new row is written, so once the run is past its reset, and
\* after it, every row in the store was written by the latest such run.
C8_FullReplace ==
  ing_pc # "reset" => RowGens \subseteq {gen}

\* C8 witness: a second run that found files has completed over a store
\* that held Document and Chunk rows of the first.
C8_Witness ==
  /\ ing_pc = "idle" /\ gen = 2 /\ ing_result.status = "ok"
  /\ ing_start.documents # {} /\ ing_start.chunks # {}
  /\ documents # {} /\ chunks # {}

\* C9: if the Embedding Client call fails during a run, the run aborts with
\* the error, the Document rows written in this run stay persisted, and the
\* run has written no Chunk row and has not modified the Vector Index
\* artifact.
C9_EmbedFailure ==
  ing_result.status = "error" =>
    /\ ing_pc = "idle"
    /\ documents = DocumentRows(gen, ing_files) /\ documents # {}
    /\ \A c \in chunks : c.doc_id[1] # gen
    /\ index_file = ing_start.index_file

\* C9 witness: a run was aborted by an embedding failure over a store that
\* held an index and Chunk rows.
C9_Witness ==
  /\ ing_result.status = "error"
  /\ ing_start.index_file.exists /\ ing_start.chunks # {}

\* the most recent run returned its counts
RunReturned == ing_pc = "idle" /\ ing_result.status = "ok"

\* C22: an ingestion run that finds zero corpus files is a no-op: it reports
\* 0 documents and 0 chunks and leaves the existing Document rows, Chunk
\* rows and Vector Index artifact unchanged.
C22_NoFilesNoOp ==
  RunReturned /\ ing_files.sizes = << >> =>
    /\ ing_result.docs = 0
    /\ ing_result.chunks = 0
    /\ documents = ing_start.documents
    /\ chunks = ing_start.chunks
    /\ index_file = ing_start.index_file

\* a run found no file over a store that held Document rows, Chunk rows and
\* an index file
C22_Witness ==
  /\ RunReturned
  /\ ing_files.sizes = << >>
  /\ documents # {} /\ chunks # {} /\ index_file.exists

\* C23: an ingestion run in which corpus files exist but all bodies produce
\* zero chunks ends with no Vector Index artifact present (a previous one is
\* deleted), no Chunk rows, the run's Document rows written, and a result
\* reporting 0 chunks; the Embedding Client is not called.
C23_NoChunksNoIndex ==
  RunReturned /\ ing_files.sizes # << >> /\ Sum(ing_files.sizes) = 0 =>
    /\ ~index_file.exists
    /\ chunks = {}
    /\ documents = DocumentRows(gen, ing_files)
    /\ Cardinality(documents) = Len(ing_files.sizes)
    /\ ing_result.docs = Len(ing_files.sizes)
    /\ ing_result.chunks = 0
    /\ ing_vectors = << >>

\* a run of two files without a chunk returned over a store that held Chunk
\* rows and an index file
C23_Witness ==
  /\ RunReturned
  /\ Len(ing_files.sizes) = 2 /\ Sum(ing_files.sizes) = 0
  /\ ing_start.chunks # {} /\ ing_start.index_file.exists

\* ---------------------------------------------------------------- Retriever
MAX_EXCERPTS_PER_SOURCE == 3

Queries == {"q1", "q2"}

\* retriever.py:69-73  the inner product of the normalized query vector and
\* an index vector: query q1 is closest to the first chunks of the first
\* files, query q2 to the last chunks of the last files
Score(q, v) ==
  IF q = "q1" THEN 0 - (2 * v.of[2] + v.of[3]) ELSE 2 * v.of[2] + v.of[3]

\* the best remaining row: highest score, lowest row index among equals
BestRow(vectors, q, rows) ==
  CHOOSE r \in rows : \A r2 \in rows :
    \/ Score(q, vectors[r]) > Score(q, vectors[r2])
    \/ Score(q, vectors[r]) = Score(q, vectors[r2]) /\ r <= r2

\* retriever.py:73  index.search(query, k): the k best rows as (score, row
\* index) pairs, best first, row indices 0-based, padded with index -1 when
\* the index holds fewer than k vectors
RECURSIVE SearchRows(_, _, _, _)
SearchRows(vectors, q, k, rows) ==
  IF k = 0 THEN << >>
  ELSE IF rows = {} THEN <<[score |-> 0, idx |-> 0 - 1]>> \o SearchRows(vectors, q, k - 1, rows)
  ELSE LET r == BestRow(vectors, q, rows)
       IN <<[score |-> Score(q, vectors[r]), idx |-> r - 1]>>
            \o SearchRows(vectors, q, k - 1, rows \ {r})

Search(vectors, q, k) == SearchRows(vectors, q, k, DOMAIN vectors)

\* a one-off join: the rows of chunks JOIN documents one row further on
JoinRowsOffByOne(idx) ==
  {[chunk_id |-> c.chunk_id, text |-> c.text, doc_id |-> c.doc_id,
    source_url |-> d.source_url] :
     <<c, d>> \in {p \in chunks \X documents :
                     p[1].doc_id = p[2].doc_id /\ p[1].embedding_index = idx + 1}}

\* retriever.py:24-45  the rows of chunks JOIN documents with the given
\* embedding_index
JoinRows(idx) ==
  {[chunk_id |-> c.chunk_id, text |-> c.text, doc_id |-> c.doc_id,
    source_url |-> d.source_url] :
     <<c, d>> \in {p \in chunks \X documents :
                     p[1].doc_id = p[2].doc_id /\ p[1].embedding_index = idx}}

\* retriever.py:105  source_key = chunk["source_url"] or chunk["doc_id"]
SourceKey(h) ==
  IF h.source_url # None THEN <<"url", h.source_url>> ELSE <<"doc", h.doc_id>>

Max(S) == CHOOSE x \in S : \A y \in S : x >= y

\* retriever.py:103-120  the group of the hits with source key k: its
\* chunks in hit order, best_score, first_rank (0-based)
Group(hits, k) ==
  LET ranks == {r \in DOMAIN hits : SourceKey(hits[r]) = k}
      first == CHOOSE r \in ranks : \A r2 \in ranks : r <= r2
  IN [source_url |-> hits[first].source_url,
      doc_id |-> hits[first].doc_id,
      chunks |-> SelectSeq(hits, LAMBDA h : SourceKey(h) = k),
      best_score |-> Max({hits[r].score : r \in ranks}),
      first_rank |-> first - 1]

Groups(hits) == {Group(hits, SourceKey(hits[r])) : r \in DOMAIN hits}

\* groups of equal best_score ranked by descending first_rank
RECURSIVE SortGroupsLateFirst(_)
SortGroupsLateFirst(G) ==
  IF G = {} THEN << >>
  ELSE LET g == CHOOSE x \in G : \A y \in G :
                  \/ x.best_score > y.best_score
                  \/ x.best_score = y.best_score /\ x.first_rank >= y.first_rank
       IN <<g>> \o SortGroupsLateFirst(G \ {g})

\* retriever.py:122-125  sorted(groups, key = (-best_score, first_rank))
RECURSIVE SortGroups(_)
SortGroups(G) ==
  IF G = {} THEN << >>
  ELSE LET g == CHOOSE x \in G : \A y \in G :
                  \/ x.best_score > y.best_score
                  \/ x.best_score = y.best_score /\ x.first_rank <= y.first_rank
       IN <<g>> \o SortGroups(G \ {g})

\* retriever.py:130  sorted(chunks, key = score, reverse = True): stable, so
\* chunks of equal score keep their hit order
RECURSIVE SortChunks(_)
SortChunks(cs) ==
  IF cs = << >> THEN << >>
  ELSE LET i == CHOOSE x \in DOMAIN cs :
                  /\ \A y \in DOMAIN cs : cs[x].score >= cs[y].score
                  /\ \A y \in 1..(x - 1) : cs[y].score < cs[x].score
       IN <<cs[i]>> \o SortChunks([n \in 1..(Len(cs) - 1) |->
                                     IF n < i THEN cs[n] ELSE cs[n + 1]])

\* sequence q cut to its first n elements (q[:n])
Take(q, n) == SubSeq(q, 1, IF n < Len(q) THEN n ELSE Len(q))

\* one excerpt too many per source
ExcerptsOneTooMany(g) ==
  LET top == Take(SortChunks(g.chunks), MAX_EXCERPTS_PER_SOURCE + 1)
  IN [n \in DOMAIN top |->
        [chunk_id |-> top[n].chunk_id, score |-> top[n].score,
         text |-> top[n].text, matched |-> top[n].matched]]

\* retriever.py:131-138  the excerpts of a group
Excerpts(g) ==
  LET top == Take(SortChunks(g.chunks), MAX_EXCERPTS_PER_SOURCE)
  IN [n \in DOMAIN top |->
        [chunk_id |-> top[n].chunk_id, score |-> top[n].score,
         text |-> top[n].text, matched |-> top[n].matched]]

\* source ids numbered from 0
SourcesFromZero(hits, top_sources_) ==
  LET max_sources == IF top_sources_ > 0 THEN top_sources_ ELSE 1
      kept == Take(SortGroups(Groups(hits)), max_sources)
  IN [n \in DOMAIN kept |->
        [source_id |-> <<"S", n - 1>>, source_url |-> kept[n].source_url,
         score |-> kept[n].best_score, doc_id |-> kept[n].doc_id,
         excerpts |-> Excerpts(kept[n])]]

\* retriever.py:127-150  the sources: the max_sources best groups, numbered
\* S1, S2, ... in ranked order
Sources(hits, top_sources_) ==
  LET max_sources == IF top_sources_ > 0 THEN top_sources_ ELSE 1
      kept == Take(SortGroups(Groups(hits)), max_sources)
  IN [n \in DOMAIN kept |->
        [source_id |-> <<"S", n>>, source_url |-> kept[n].source_url,
         score |-> kept[n].best_score, doc_id |-> kept[n].doc_id,
         excerpts |-> Excerpts(kept[n])]]

\* retriever.py:100-156  the result for the chunk hits
Result(hits, top_sources_) ==
  IF hits = << >> THEN EmptyResult
  ELSE [sources |-> Sources(hits, top_sources_),
        chunks_retrieved |-> Len(hits),
        sources_deduped |-> Cardinality(Groups(hits))]

\* Optional[int]: None, or an integer
NoneInt == [some |-> FALSE, val |-> 0]

SomeInt(n) == [some |-> TRUE, val |-> n]

\* the top_k argument of a call: None, the configured value (as main.py:137
\* passes it), zero, or a negative value
TopKArgs == {NoneInt} \cup {SomeInt(n) : n \in {0 - 1, 0, top_k}}

RawQueries == {"", " "} \cup Queries

\* retriever.py:53  (query or "").strip()
Strip(query) == IF query \in {"", " "} THEN "" ELSE query

\* retriever.py:61  top_k or settings.top_k
EffectiveTopK(arg) == IF arg.some /\ arg.val # 0 THEN arg.val ELSE top_k

StoreNow == [documents |-> documents, chunks |-> chunks, index_file |-> index_file]

\* the store is consistent: index and Chunk rows in lockstep, and every Chunk
\* row has its Document row
StoreConsistent ==
  /\ Lockstep
  /\ \A c \in chunks : \E d \in documents : d.doc_id = c.doc_id

RetrieveInit ==
  /\ top_k \in 0..MaxTopK
  /\ top_sources \in 0..MaxTopSources
  /\ RetrieveIdle

\* retrieve returns res, or raises
RtReturn(status, res) ==
  /\ rt_pc' = "idle"
  /\ rt_result' = [status |-> status, value |-> res]

\* retriever.py:52-63  a call starts: the guards on the query, the index file
\* and top_k. One call is followed: retrieve writes nothing, so a later call
\* starts from the same store as a first call would
RtStart(query, arg) ==
  /\ rt_pc = "idle"
  /\ rt_calls = 0
  /\ rt_calls' = rt_calls + 1
  /\ rt_query' = Strip(query)
  /\ rt_k' = EffectiveTopK(arg)
  /\ rt_index' = << >>
  /\ rt_rows' = << >>
  /\ rt_chunk_hits' = << >>
  /\ rt_consistent' = FALSE
  /\ rt_seen' = NoStore
  /\ rt_stable' = FALSE
  /\ rt_call' = [blank |-> Strip(query) = "", no_index |-> ~index_file.exists,
                nonpositive |-> arg.some /\ arg.val <= 0]
  /\ IF rt_query' = "" \/ ~index_file.exists \/ rt_k' <= 0
       THEN RtReturn("ok", EmptyResult)
       ELSE rt_pc' = "embed" /\ rt_result' = NoResult
  /\ UNCHANGED <<retrieveCfg, storeVars, nonRetrieve>>

\* retriever.py:65-70  the query embedding arrives
RtEmbed ==
  /\ rt_pc = "embed"
  /\ rt_pc' = "search"
  /\ UNCHANGED <<retrieveCfg, rt_call, retrieveLocals, rt_result, rt_calls, retrieveHist,
                 storeVars, nonRetrieve>>

\* retriever.py:65-67  the Embedding Client returns no embedding: empty result
RtEmbedEmpty ==
  /\ rt_pc = "embed"
  /\ RtReturn("ok", EmptyResult)
  /\ UNCHANGED <<retrieveCfg, rt_call, retrieveLocals, rt_calls, retrieveHist,
                 storeVars, nonRetrieve>>

\* retriever.py:65  the Embedding Client raises
RtEmbedFails ==
  /\ rt_pc = "embed"
  /\ RtReturn("raised", EmptyResult)
  /\ UNCHANGED <<retrieveCfg, rt_call, retrieveLocals, rt_calls, retrieveHist,
                 storeVars, nonRetrieve>>

\* retriever.py:72-76  read the index file as it is now and search it; the
\* read raises if the file has been removed since the guard
RtSearch ==
  /\ rt_pc = "search"
  /\ IF index_file.exists
       THEN /\ rt_index' = index_file.vectors
            /\ rt_rows' = Search(index_file.vectors, rt_query, rt_k)
            /\ rt_consistent' = StoreConsistent
            /\ rt_seen' = StoreNow
            /\ rt_stable' = TRUE
            /\ rt_pc' = "join"
            /\ UNCHANGED rt_result
       ELSE /\ RtReturn("raised", EmptyResult)
            /\ UNCHANGED <<rt_index, rt_rows, retrieveHist>>
  /\ UNCHANGED <<retrieveCfg, rt_call, rt_query, rt_k, rt_chunk_hits, rt_calls,
                 storeVars, nonRetrieve>>

\* retriever.py:85-96  the chunk hit of a joined row m found for the search
\* row r; `matched` records the text whose vector r matched
ChunkHit(m, r) ==
  [chunk_id |-> m.chunk_id, doc_id |-> m.doc_id, score |-> r.score,
   text |-> m.text, source_url |-> m.source_url,
   matched |-> rt_index[r.idx + 1].of]

\* retriever.py:79-96  one turn of the loop: skip a padding row, else join
\* the row index against the committed chunks and documents
RtJoin ==
  /\ rt_pc = "join"
  /\ rt_rows # << >>
  /\ LET r == Head(rt_rows)
     IN IF r.idx < 0
          THEN UNCHANGED <<rt_chunk_hits, rt_stable>>
          ELSE /\ rt_stable' = (rt_stable /\ StoreNow = rt_seen)
               /\ IF JoinRows(r.idx) = {}
                    THEN UNCHANGED rt_chunk_hits
                    ELSE \E m \in JoinRows(r.idx) :
                           rt_chunk_hits' = Append(rt_chunk_hits, ChunkHit(m, r))
  /\ rt_rows' = Tail(rt_rows)
  /\ UNCHANGED <<retrieveCfg, rt_call, rt_pc, rt_query, rt_k, rt_index, rt_result, rt_calls,
                 rt_consistent, rt_seen, storeVars, nonRetrieve>>

\* retriever.py:98-156  the loop is over: group, rank and return
RtFinish ==
  /\ rt_pc = "join"
  /\ rt_rows = << >>
  /\ RtReturn("ok", Result(rt_chunk_hits, top_sources))
  /\ UNCHANGED <<retrieveCfg, rt_call, retrieveLocals, rt_calls, retrieveHist,
                 storeVars, nonRetrieve>>

RetrieveNext ==
  \/ \E query \in RawQueries, arg \in TopKArgs : RtStart(query, arg)
  \/ RtEmbed
  \/ RtEmbedEmpty
  \/ RtEmbedFails
  \/ RtSearch
  \/ RtJoin
  \/ RtFinish

\* main.py:136-137  the retrieve call of /chat: the top_k argument is the
\* configured value
ChatRetrieveNext ==
  \/ \E query \in RawQueries : RtStart(query, SomeInt(top_k))
  \/ RtEmbed
  \/ RtEmbedEmpty
  \/ RtEmbedFails
  \/ RtSearch
  \/ RtJoin
  \/ RtFinish

\* a retrieve call is yet to come or in flight
RetrievePending == rt_pc # "idle" \/ rt_calls = 0

\* the corpus directories of these runs: no file, one blank file, one file
\* of one chunk, two files of one chunk each, in either edition
RetrieveCorpora ==
  {[ver |-> v, sizes |-> z] : v \in Versions, z \in {<< >>, <<0>>, <<1>>, <<1, 1>>}}

\* the retrieve call of /chat runs while ingestion runs come and go; the
\* ingestion steps taken after the call has returned are left out, no
\* retrieve call sees what they do
RetrieveIngestNext ==
  \/ ChatRetrieveNext
  \/ RetrievePending /\ \E corpus \in RetrieveCorpora : IngestStart(corpus)
  \/ RetrievePending /\ IngestReset
  \/ RetrievePending /\ IngestDocuments
  \/ RetrievePending /\ IngestNoChunks
  \/ RetrievePending /\ IngestEmbed
  \/ RetrievePending /\ IngestEmbedFails
  \/ RetrievePending /\ IngestWriteIndex
  \/ RetrievePending /\ IngestChunks

\* no retrieve call has started
RetrieveNotCalled == rt_pc = "idle" /\ rt_calls = 0

\* ingestion runs leave the store in some state; then retrieve is called,
\* with any query and any top_k argument, and runs over the store as it is
RetrieveCallNext ==
  \/ RetrieveNext
  \/ RetrieveNotCalled /\ \E corpus \in RetrieveCorpora : IngestStart(corpus)
  \/ RetrieveNotCalled /\ IngestReset
  \/ RetrieveNotCalled /\ IngestDocuments
  \/ RetrieveNotCalled /\ IngestNoChunks
  \/ RetrieveNotCalled /\ IngestEmbed
  \/ RetrieveNotCalled /\ IngestEmbedFails
  \/ RetrieveNotCalled /\ IngestWriteIndex
  \/ RetrieveNotCalled /\ IngestChunks

InitRetrieve == QuotaQuiet /\ RateQuiet /\ IngestQuiet /\ RetrieveInit /\ GroundingQuiet /\ OthersQuiet

SpecRetrieve == InitRetrieve /\ [][RetrieveIngestNext]_vars

SpecRetrieveCall == InitRetrieve /\ [][RetrieveCallNext]_vars

\* the retrieve call searched an index and returned a result
Searched == rt_pc = "idle" /\ rt_result.status = "ok" /\ rt_seen.index_file.exists

\* a returned excerpt is not the text whose vector the search matched
MismatchedExcerpt ==
  \E n \in DOMAIN rt_result.value.sources :
    \E e \in DOMAIN rt_result.value.sources[n].excerpts :
      LET x == rt_result.value.sources[n].excerpts[e] IN x.text # x.matched

\* the search matched vectors and the result holds none of them
DroppedEveryHit ==
  /\ \E n \in DOMAIN Search(rt_index, rt_query, rt_k) :
       Search(rt_index, rt_query, rt_k)[n].idx >= 0
  /\ rt_result.value = EmptyResult

\* C10: retrieve reads the index once and then joins each row index against
\* the committed rows of the moment, so an ingestion run interleaved with
\* the call tears it: a call that found the store consistent when it read
\* the index, and unchanged at every join, returns for every matched vector
\* the text of that vector and drops no hit; a call that returns a
\* mismatched excerpt or drops every hit is one whose store changed between
\* the search and a join, or was already out of lockstep at the search.
C10_TornOnlyByInterleaving ==
  Searched /\ rt_consistent /\ rt_stable => ~MismatchedExcerpt /\ ~DroppedEveryHit

\* a call searched the index of one run, in a consistent store, and returned
\* an excerpt of a Chunk row of the next run that is not the matched text
C10_Witness ==
  /\ Searched
  /\ rt_consistent
  /\ ~rt_stable
  /\ \E n \in DOMAIN rt_result.value.sources :
       \E e \in DOMAIN rt_result.value.sources[n].excerpts :
         LET x == rt_result.value.sources[n].excerpts[e]
         IN /\ x.text # x.matched
            /\ \A c \in rt_seen.chunks : x.chunk_id[1][1] = c.doc_id[1] + 1

\* a call searched the index of one run, in a consistent store, and joined
\* its row indices against the chunk table the next run had emptied
C10_WitnessDropped ==
  /\ Searched
  /\ rt_consistent
  /\ ~rt_stable
  /\ DroppedEveryHit
  /\ rt_chunk_hits = << >>

\* the call returned the empty result at its guards: it did not raise, asked
\* for no embedding and read no index
ReturnedAtGuards ==
  /\ rt_pc = "idle"
  /\ rt_result = [status |-> "ok", value |-> EmptyResult]
  /\ rt_index = << >>
  /\ rt_seen = NoStore

\* C11: whenever the query of a retrieve call is empty or whitespace-only,
\* or the index file does not exist, or the top_k argument is an integer
\* <= 0 (0 included), the call returns the empty result without raising and
\* without calling the Embedding Client or the Vector Index.
C11_GuardsReturnEmpty ==
  rt_calls = 1 /\ (rt_call.blank \/ rt_call.no_index \/ rt_call.nonpositive)
    => ReturnedAtGuards

\* ------------------------------------------ Retriever: grouping and ranking
\* the documents of the hits: two without source_url, two that share one
HitDoc(i) ==
  [doc_id |-> DocId(1, i),
   source_url |-> IF i <= 2 THEN None ELSE "https://source"]

\* doc ids are fresh uuids, so of two documents alike the one that is hit
\* first is taken to be the first: document 2 is hit only after document 1,
\* document 4 only after document 3
NextDocs(seen) ==
  {i \in 1..4 : i \in {1, 3} \/ (i - 1) \in seen}

HitScores == {1, 2}

\* retriever.py:73  the (score, document) pairs of n hits in search order:
\* index.search returns its rows best first, so the scores never increase
RECURSIVE ScoredDocs(_, _, _)
ScoredDocs(n, top, seen) ==
  IF n = 0 THEN {<< >>}
  ELSE UNION {{<<[score |-> sc, doc |-> HitDoc(i)]>> \o rest :
                 rest \in ScoredDocs(n - 1, sc, seen \cup {i})} :
              <<sc, i>> \in {x \in HitScores : x <= top} \X NextDocs(seen)}

\* retriever.py:85-96  the chunk hits of the pairs: the hit at rank r is
\* chunk r of its document
HitsOf(pairs) ==
  [r \in DOMAIN pairs |->
     [chunk_id |-> <<pairs[r].doc.doc_id, r - 1>>,
      doc_id |-> pairs[r].doc.doc_id,
      score |-> pairs[r].score,
      text |-> <<"v1", pairs[r].doc.doc_id[2], r>>,
      source_url |-> pairs[r].doc.source_url,
      matched |-> <<"v1", pairs[r].doc.doc_id[2], r>>]]

HitLists == {HitsOf(pairs) : pairs \in UNION {ScoredDocs(n, Max(HitScores), {}) : n \in 0..MaxHits}}

\* retriever.py:98  the join loop of a call is over and has left some chunk
\* hits; the store they were joined from is not followed
InitSources ==
  /\ QuotaQuiet /\ RateQuiet /\ IngestQuiet /\ GroundingQuiet /\ OthersQuiet
  /\ top_k = MaxHits
  /\ top_sources \in 0..MaxTopSources
  /\ rt_pc = "join"
  /\ rt_query = "q1"
  /\ rt_k = top_k
  /\ rt_index = << >>
  /\ rt_rows = << >>
  /\ rt_chunk_hits \in HitLists
  /\ rt_result = NoResult
  /\ rt_calls = 1
  /\ rt_consistent = FALSE
  /\ rt_seen = NoStore
  /\ rt_stable = FALSE
  /\ rt_call = NoCallMade

SourcesNext == RtFinish

SpecSources == InitSources /\ [][SourcesNext]_vars

\* the call returned the sources of its chunk hits
SourcesReturned == rt_pc = "idle" /\ rt_result.status = "ok"

\* the ranks (from 1) of the chunk hits of source s: the hits with its
\* source_url, or, when it has none, the hits without one of its document
SourceHits(s) ==
  {r \in DOMAIN rt_chunk_hits :
     IF s.source_url # None
       THEN rt_chunk_hits[r].source_url = s.source_url
       ELSE rt_chunk_hits[r].source_url = None /\ rt_chunk_hits[r].doc_id = s.doc_id}

FirstRank(s) == CHOOSE r \in SourceHits(s) : \A r2 \in SourceHits(s) : r <= r2

\* C12: the sources of a retrieve result are in descending order of
\* best_score, the maximum score over the hits of the source's group, and
\* two sources of equal best_score are in ascending order of first_rank, the
\* lowest rank at which a hit of the group appeared.
C12_SourcesRanked ==
  SourcesReturned =>
    LET src == rt_result.value.sources
    IN /\ \A n \in DOMAIN src :
            /\ SourceHits(src[n]) # {}
            /\ \A r \in SourceHits(src[n]) : rt_chunk_hits[r].score <= src[n].score
            /\ \E r \in SourceHits(src[n]) : rt_chunk_hits[r].score = src[n].score
       /\ \A i, j \in DOMAIN src :
            i < j => \/ src[i].score > src[j].score
                     \/ /\ src[i].score = src[j].score
                        /\ FirstRank(src[i]) < FirstRank(src[j])

\* two sources of equal best_score were returned, the first with several
\* hits of different scores
C12_Witness ==
  /\ SourcesReturned
  /\ Len(rt_result.value.sources) = 2
  /\ rt_result.value.sources[1].score = rt_result.value.sources[2].score
  /\ \E r \in SourceHits(rt_result.value.sources[1]) :
       rt_chunk_hits[r].score < rt_result.value.sources[1].score

\* C13: a retrieve result has at most max_sources sources, a configured
\* top_sources <= 0 counting as 1, and every source carries at most 3
\* excerpts: the highest-scoring chunks of its group, in descending score
\* order.
C13_SourcesBounded ==
  SourcesReturned =>
    LET src == rt_result.value.sources
    IN /\ Len(src) <= (IF top_sources <= 0 THEN 1 ELSE top_sources)
       /\ \A n \in DOMAIN src :
            LET ex == src[n].excerpts
                H == SourceHits(src[n])
                taken == {r \in H : \E e \in DOMAIN ex :
                            ex[e].chunk_id = rt_chunk_hits[r].chunk_id}
            IN /\ Len(ex) <= 3
               /\ Len(ex) = Min(3, Cardinality(H))
               /\ Cardinality(taken) = Len(ex)
               /\ \A e \in DOMAIN ex : \E r \in H :
                    /\ ex[e].chunk_id = rt_chunk_hits[r].chunk_id
                    /\ ex[e].score = rt_chunk_hits[r].score
                    /\ ex[e].text = rt_chunk_hits[r].text
               /\ \A e1, e2 \in DOMAIN ex : e1 < e2 => ex[e1].score >= ex[e2].score
               /\ \A r \in H \ taken : \A e \in DOMAIN ex :
                    rt_chunk_hits[r].score <= ex[e].score

\* with top_sources = 0, of two groups one source was returned, and of its
\* four chunks three excerpts
C13_Witness ==
  /\ SourcesReturned
  /\ top_sources = 0
  /\ Len(rt_result.value.sources) = 1
  /\ rt_result.value.sources_deduped = 2
  /\ Cardinality(SourceHits(rt_result.value.sources[1])) = 4
  /\ Len(rt_result.value.sources[1].excerpts) = 3

\* C14: in a retrieve result of n sources the source ids are S1..Sn, in
\* that order, so unique and contiguous from 1, and the source Si is the
\* i-th group of the ranked order: S1 is the group of the best hit, and no
\* group left out outranks a source.
C14_SourceIds ==
  SourcesReturned =>
    LET src == rt_result.value.sources
    IN /\ \A i \in DOMAIN src : src[i].source_id = <<"S", i>>
       /\ \A i, j \in DOMAIN src : i # j => src[i].source_id # src[j].source_id
       /\ \A i, j \in DOMAIN src : i < j => SourceHits(src[i]) \cap SourceHits(src[j]) = {}
       /\ rt_chunk_hits # << >> =>
            /\ src # << >>
            /\ \A r \in DOMAIN rt_chunk_hits : rt_chunk_hits[r].score <= src[1].score
       /\ \A r \in DOMAIN rt_chunk_hits :
            (\A n \in DOMAIN src : r \notin SourceHits(src[n])) =>
              \A n \in DOMAIN src : rt_chunk_hits[r].score <= src[n].score

\* two sources S1 and S2 were returned and a third group was left out
C14_Witness ==
  /\ SourcesReturned
  /\ Len(rt_result.value.sources) = 2
  /\ rt_result.value.sources[1].source_id = <<"S", 1>>
  /\ rt_result.value.sources[2].source_id = <<"S", 2>>
  /\ rt_result.value.sources[1].score > rt_result.value.sources[2].score
  /\ rt_result.value.sources_deduped = 3

\* ------------------------------------------------------ Grounding Validator
\* A text is the sequence of its characters; a citation id is the sequence
\* of the characters between the brackets of its marker.
Digits == {"1", "2", "3"}

\* the code point of a character
CharCode(c) ==
  CASE c = "1" -> 49 [] c = "2" -> 50 [] c = "3" -> 51 [] c = "S" -> 83
    [] c = "[" -> 91 [] c = "]" -> 93 [] OTHER -> 120

\* grounding.py:7  \d+ from position i: the position after the digits
RECURSIVE DigitsEnd(_, _)
DigitsEnd(text, i) ==
  IF i <= Len(text) /\ text[i] \in Digits THEN DigitsEnd(text, i + 1) ELSE i

\* grounding.py:7  a match of \[(S\d+)\] starting at position i: the position
\* of its closing bracket, 0 if there is no match at i
MatchEnd(text, i) ==
  IF i + 1 <= Len(text) /\ text[i] = "[" /\ text[i + 1] = "S"
    THEN LET e == DigitsEnd(text, i + 2)
         IN IF e > i + 2 /\ e <= Len(text) /\ text[e] = "]" THEN e ELSE 0
    ELSE 0

\* grounding.py:13-20  finditer from position i on: the ids not seen yet are
\* appended in order of first occurrence
RECURSIVE ScanCitations(_, _, _)
ScanCitations(text, i, ordered) ==
  IF i > Len(text) THEN ordered
  ELSE LET e == MatchEnd(text, i)
       IN IF e = 0 THEN ScanCitations(text, i + 1, ordered)
          ELSE LET id == SubSeq(text, i + 1, e - 1)
               IN ScanCitations(text, e + 1,
                    IF \E n \in DOMAIN ordered : ordered[n] = id
                      THEN ordered ELSE Append(ordered, id))

\* finditer from position i on, every match appended, seen before or not
RECURSIVE ScanCitationsKeepsRepeats(_, _, _)
ScanCitationsKeepsRepeats(text, i, ordered) ==
  IF i > Len(text) THEN ordered
  ELSE LET e == MatchEnd(text, i)
       IN IF e = 0 THEN ScanCitationsKeepsRepeats(text, i + 1, ordered)
          ELSE ScanCitationsKeepsRepeats(text, e + 1,
                 Append(ordered, SubSeq(text, i + 1, e - 1)))

\* extract_source_citations without the seen set
extract_source_citations_with_repeats(text) ==
  IF text = << >> THEN << >> ELSE ScanCitationsKeepsRepeats(text, 1, << >>)

\* grounding.py:10-20
extract_source_citations(text) ==
  IF text = << >> THEN << >> ELSE ScanCitations(text, 1, << >>)

\* the order of Python strings: a < b
RECURSIVE StrLess(_, _)
StrLess(a, b) ==
  IF a = << >> THEN b # << >>
  ELSE IF b = << >> THEN FALSE
  ELSE IF Head(a) = Head(b) THEN StrLess(Tail(a), Tail(b))
  ELSE CharCode(Head(a)) < CharCode(Head(b))

\* grounding.py:61, 68  sorted(invalid)
RECURSIVE SortedIds(_)
SortedIds(ids) ==
  IF ids = {} THEN << >>
  ELSE LET m == CHOOSE x \in ids : \A y \in ids \ {x} : StrLess(x, y)
       IN <<m>> \o SortedIds(ids \ {m})

\* accepts although an id is not allowed and strict is set
enforce_grounding_lenient(text, allowed, citations_required, strict) ==
  LET ordered == extract_source_citations(text)
      invalid == {ordered[n] : n \in DOMAIN ordered} \ allowed
  IN IF citations_required /\ ordered = << >>
       THEN [NoPayload EXCEPT !.keys = {"citations", "ok", "reason"},
                              !.citations = ordered, !.reason = "NO_CITATIONS"]
       ELSE [NoPayload EXCEPT
               !.keys = {"citations", "ok", "text"}
                          \cup (IF invalid # {} THEN {"warning"} ELSE {}),
               !.citations = ordered, !.ok = TRUE, !.text = text,
               !.warning = SortedIds(invalid)]

\* tests for missing citations only when strict is set
enforce_grounding_required_if_strict(text, allowed, citations_required, strict) ==
  LET ordered == extract_source_citations(text)
      invalid == {ordered[n] : n \in DOMAIN ordered} \ allowed
  IN IF citations_required /\ strict /\ ordered = << >>
       THEN [NoPayload EXCEPT !.keys = {"citations", "ok", "reason"},
                              !.citations = ordered, !.reason = "NO_CITATIONS"]
       ELSE IF invalid # {} /\ strict
       THEN [NoPayload EXCEPT !.keys = {"citations", "ok", "reason", "invalid"},
                              !.citations = ordered,
                              !.reason = "INVALID_CITATIONS",
                              !.invalid = SortedIds(invalid)]
       ELSE [NoPayload EXCEPT
               !.keys = {"citations", "ok", "text"}
                          \cup (IF invalid # {} THEN {"warning"} ELSE {}),
               !.citations = ordered, !.ok = TRUE, !.text = text,
               !.warning = SortedIds(invalid)]

\* always attaches the warning when strict is not set
enforce_grounding_always_warns(text, allowed, citations_required, strict) ==
  LET ordered == extract_source_citations(text)
      invalid == {ordered[n] : n \in DOMAIN ordered} \ allowed
  IN IF citations_required /\ ordered = << >>
       THEN [NoPayload EXCEPT !.keys = {"citations", "ok", "reason"},
                              !.citations = ordered, !.reason = "NO_CITATIONS"]
       ELSE IF invalid # {} /\ strict
       THEN [NoPayload EXCEPT !.keys = {"citations", "ok", "reason", "invalid"},
                              !.citations = ordered,
                              !.reason = "INVALID_CITATIONS",
                              !.invalid = SortedIds(invalid)]
       ELSE [NoPayload EXCEPT
               !.keys = {"citations", "ok", "text", "warning"},
               !.citations = ordered, !.ok = TRUE, !.text = text,
               !.warning = SortedIds(invalid)]

\* grounding.py:39-70  the payload enforce_grounding returns: keys are the
\* keys of the dict, the other fields their values
enforce_grounding(text, allowed, citations_required, strict) ==
  LET ordered == extract_source_citations(text)
      invalid == {ordered[n] : n \in DOMAIN ordered} \ allowed
  IN IF citations_required /\ ordered = << >>
       THEN [NoPayload EXCEPT !.keys = {"citations", "ok", "reason"},
                              !.citations = ordered, !.reason = "NO_CITATIONS"]
       ELSE IF invalid # {} /\ strict
       THEN [NoPayload EXCEPT !.keys = {"citations", "ok", "reason", "invalid"},
                              !.citations = ordered,
                              !.reason = "INVALID_CITATIONS",
                              !.invalid = SortedIds(invalid)]
       ELSE [NoPayload EXCEPT
               !.keys = {"citations", "ok", "text"}
                          \cup (IF invalid # {} THEN {"warning"} ELSE {}),
               !.citations = ordered, !.ok = TRUE, !.text = text,
               !.warning = SortedIds(invalid)]

\* the pieces texts are made of: the markers [S1], [S2], [S3], the broken
\* pieces "[S" and "1]", a digit, a letter
Pieces ==
  {<<"[", "S", "1", "]">>, <<"[", "S", "2", "]">>, <<"[", "S", "3", "]">>,
   <<"[", "S">>, <<"1", "]">>, <<"2">>, <<"x">>}

\* the texts of n pieces
RECURSIVE TextsOf(_)
TextsOf(n) ==
  IF n = 0 THEN {<< >>}
  ELSE {p \o t : p \in Pieces, t \in TextsOf(n - 1)}

Texts == UNION {TextsOf(n) : n \in 0..MaxPieces}

AllowedSets == SUBSET {<<"S", "1">>, <<"S", "2">>}

GroundingInit ==
  /\ gr_text \in Texts
  /\ gr_allowed \in AllowedSets
  /\ gr_citations_required \in BOOLEAN
  /\ gr_strict \in BOOLEAN
  /\ gr_payload = NoPayload

\* grounding.py:39-70  the call returns
GroundingCall ==
  /\ gr_payload = NoPayload
  /\ gr_payload' = enforce_grounding(gr_text, gr_allowed, gr_citations_required, gr_strict)
  /\ UNCHANGED <<gr_text, gr_allowed, gr_citations_required, gr_strict, nonGround>>

GroundingNext == GroundingCall

InitGrounding == QuotaQuiet /\ RateQuiet /\ IngestQuiet /\ RetrieveQuiet /\ GroundingInit /\ OthersQuiet

SpecGrounding == InitGrounding /\ [][GroundingNext]_vars

\* enforce_grounding has returned
Grounded == gr_payload.keys # {}

\* the citation markers of the text gr_text: positions i and j of the
\* brackets of a substring "[S", one or more digits, "]"
Markers ==
  {<<i, j>> \in (DOMAIN gr_text) \X (DOMAIN gr_text) :
     /\ j >= i + 3
     /\ gr_text[i] = "["
     /\ gr_text[i + 1] = "S"
     /\ gr_text[j] = "]"
     /\ \A k \in (i + 2)..(j - 1) : gr_text[k] \in Digits}

\* the id of marker m
MarkerId(m) == SubSeq(gr_text, m[1] + 1, m[2] - 1)

\* the ids the text cites
CitedIds == {MarkerId(m) : m \in Markers}

\* the position of the first of the markers M that has the id
FirstMarker(M, id) ==
  LET at == {m[1] : m \in {x \in M : MarkerId(x) = id}}
  IN CHOOSE i \in at : \A k \in at : i <= k

\* C15: whenever citations_required is true and the text contains no
\* citation marker, enforce_grounding rejects with ok = false and reason
\* NO_CITATIONS, whatever strict and the allowed ids are.
C15_NoCitations ==
  Grounded /\ gr_citations_required /\ Markers = {} =>
    /\ {"ok", "reason"} \subseteq gr_payload.keys
    /\ gr_payload.ok = FALSE
    /\ gr_payload.reason = "NO_CITATIONS"

\* a text with brackets but no marker was rejected although strict is off
\* and ids are allowed
C15_Witness ==
  /\ Grounded
  /\ gr_citations_required
  /\ ~gr_strict
  /\ gr_allowed # {}
  /\ Markers = {}
  /\ \E i \in DOMAIN gr_text : gr_text[i] = "["
  /\ gr_payload.reason = "NO_CITATIONS"

\* C16: with strict = true, enforce_grounding rejects with reason
\* INVALID_CITATIONS exactly when the text cites an id that is not in
\* allowed_ids, the invalid list attached is then exactly the cited ids that
\* are not allowed, and a text accepted under strict cites allowed ids only.
C16_StrictInvalid ==
  Grounded /\ gr_strict =>
    LET bad == CitedIds \ gr_allowed
    IN /\ (gr_payload.reason = "INVALID_CITATIONS" /\ ~gr_payload.ok) <=> bad # {}
       /\ gr_payload.reason = "INVALID_CITATIONS" =>
            /\ "invalid" \in gr_payload.keys
            /\ {gr_payload.invalid[n] : n \in DOMAIN gr_payload.invalid} = bad
            /\ Len(gr_payload.invalid) = Cardinality(bad)
       /\ gr_payload.ok => bad = {}

\* a strict call was rejected for two ids that are not allowed, in a text
\* that cites an allowed id too
C16_Witness ==
  /\ Grounded
  /\ gr_strict
  /\ gr_payload.reason = "INVALID_CITATIONS"
  /\ Len(gr_payload.invalid) = 2
  /\ CitedIds \cap gr_allowed # {}

\* C17: with strict = false, and a citation marker in the text or citations
\* not required, enforce_grounding accepts: ok = true, the text unchanged,
\* the cited ids in order of first occurrence, and a warning listing the ids
\* that are not allowed if and only if there is one.
C17_LenientAccepts ==
  Grounded /\ ~gr_strict =>
    LET M == Markers
        cited == {MarkerId(m) : m \in M}
        bad == cited \ gr_allowed
        cit == gr_payload.citations
    IN M # {} \/ ~gr_citations_required =>
         /\ {"ok", "text", "citations"} \subseteq gr_payload.keys
         /\ gr_payload.ok
         /\ gr_payload.text = gr_text
         /\ {cit[n] : n \in DOMAIN cit} = cited
         /\ \A a, b \in DOMAIN cit :
              a < b => FirstMarker(M, cit[a]) < FirstMarker(M, cit[b])
         /\ "warning" \in gr_payload.keys <=> bad # {}
         /\ "warning" \in gr_payload.keys =>
              {gr_payload.warning[n] : n \in DOMAIN gr_payload.warning} = bad

\* a lenient call accepted a text that cites an id twice, an allowed id and
\* an id that is not allowed, with a warning
C17_Witness ==
  /\ Grounded
  /\ ~gr_strict
  /\ gr_citations_required
  /\ gr_payload.ok
  /\ "warning" \in gr_payload.keys
  /\ CitedIds \cap gr_allowed # {}
  /\ Cardinality(Markers) > Len(gr_payload.citations)

\* a lenient call accepted a text that cites allowed ids only, without a
\* warning
C17_WitnessNoWarning ==
  /\ Grounded
  /\ ~gr_strict
  /\ gr_payload.ok
  /\ CitedIds # {}
  /\ "warning" \notin gr_payload.keys

\* C28: extract_source_citations returns, for every text, the distinct ids of
\* the markers of the exact form [S<digits>] in the order of their first
\* occurrence, each id once; the citations list of every enforce_grounding
\* result (accepted or rejected) equals this list.
C28_CitationsInOrder ==
  Grounded =>
    LET M == Markers
        c == extract_source_citations(gr_text)
    IN /\ {c[n] : n \in DOMAIN c} = {MarkerId(m) : m \in M}
       /\ \A n, k \in DOMAIN c : n < k =>
            /\ c[n] # c[k]
            /\ FirstMarker(M, c[n]) < FirstMarker(M, c[k])
       /\ "citations" \in gr_payload.keys
       /\ gr_payload.citations = c

\* a text citing S2, then S1, then S2 again was rejected with the
\* citations S2, S1
C28_Witness ==
  /\ Grounded
  /\ ~gr_payload.ok
  /\ Cardinality(Markers) = 3
  /\ gr_payload.citations = <<<<"S", "2">>, <<"S", "1">>>>

\* the same for an accepted text
C28_WitnessAccepted ==
  /\ Grounded
  /\ gr_payload.ok
  /\ Cardinality(Markers) = 3
  /\ gr_payload.citations = <<<<"S", "2">>, <<"S", "1">>>>

\* ------------------------------------------------------------------ Chunker
\* A text is the sequence of its characters.
MaxText == 4
MaxChars == 3

ChunkChars == {"a", "b", " "}

\* the characters str.strip() removes
Whitespace == {" "}

RECURSIVE LStrip(_)
LStrip(t) ==
  IF t # << >> /\ Head(t) \in Whitespace THEN LStrip(Tail(t)) ELSE t

RECURSIVE RStrip(_)
RStrip(t) ==
  IF t # << >> /\ t[Len(t)] \in Whitespace
    THEN RStrip(SubSeq(t, 1, Len(t) - 1)) ELSE t

\* chunking.py:15  text[start:end].strip()
StripText(t) == RStrip(LStrip(t))

\* the loop with the next window starting one character late
RECURSIVE ChunkLoopSkips(_, _, _, _, _)
ChunkLoopSkips(text, max_chars, overlap, start, windows) ==
  IF start < Len(text)
    THEN LET end == Min(Len(text), start + max_chars)
             chunk == StripText(SubSeq(text, start + 1, end))
             ws == Append(windows, [start |-> start, end |-> end, chunk |-> chunk])
         IN IF end = Len(text) THEN ws
            ELSE ChunkLoopSkips(text, max_chars, overlap,
                                Max({0, end - overlap}) + 1, ws)
    ELSE windows

\* the loop leaving only at a window cut short by the end of the text: a
\* full window that ends at the end of the text is followed by another
RECURSIVE ChunkLoopTrailingWindow(_, _, _, _, _)
ChunkLoopTrailingWindow(text, max_chars, overlap, start, windows) ==
  IF start < Len(text)
    THEN LET end == Min(Len(text), start + max_chars)
             chunk == StripText(SubSeq(text, start + 1, end))
             ws == Append(windows, [start |-> start, end |-> end, chunk |-> chunk])
         IN IF start + max_chars > Len(text) THEN ws
            ELSE ChunkLoopTrailingWindow(text, max_chars, overlap,
                                         Max({0, end - overlap}), ws)
    ELSE windows

\* chunking.py:13-21  the while loop from position start on (positions count
\* from 0): every window it cuts, with the chunk the window is trimmed to
RECURSIVE ChunkLoop(_, _, _, _, _)
ChunkLoop(text, max_chars, overlap, start, windows) ==
  IF start < Len(text)
    THEN LET end == Min(Len(text), start + max_chars)
             chunk == StripText(SubSeq(text, start + 1, end))
             ws == Append(windows, [start |-> start, end |-> end, chunk |-> chunk])
         IN IF end = Len(text) THEN ws
            ELSE ChunkLoop(text, max_chars, overlap, Max({0, end - overlap}), ws)
    ELSE windows

\* chunking.py:16-17  if chunk: chunks.append(chunk)
RECURSIVE NonEmptyChunks(_)
NonEmptyChunks(windows) ==
  IF windows = << >> THEN << >>
  ELSE (IF Head(windows).chunk # << >> THEN <<Head(windows).chunk>> ELSE << >>)
         \o NonEmptyChunks(Tail(windows))

\* chunking.py:4-23  chunk_text: ValueError if max_chars <= 0, else the
\* chunks (and the windows they were cut from)
chunk_text(text, max_chars, overlap) ==
  IF max_chars <= 0
    THEN [NoChunks EXCEPT !.status = "raised"]
    ELSE LET clamped == Max({0, Min(overlap, max_chars - 1)})
             windows == ChunkLoop(text, max_chars, clamped, 0, << >>)
         IN [status |-> "returned", windows |-> windows,
             chunks |-> NonEmptyChunks(windows)]

\* the texts of up to n characters
RECURSIVE ChunkTexts(_)
ChunkTexts(n) ==
  IF n = 0 THEN {<< >>}
  ELSE ChunkTexts(n - 1) \cup
         {Append(t, c) : t \in {x \in ChunkTexts(n - 1) : Len(x) = n - 1},
                         c \in ChunkChars}

\* chunking.py:4  the arguments of a call: any text, any integer max_chars
\* and overlap (zero, negative and overlap >= max_chars included)
ChunkInit ==
  /\ ck_text \in ChunkTexts(MaxText)
  /\ ck_max_chars \in 0..MaxChars
  /\ ck_overlap \in (0 - 1)..(MaxChars + 1)
  /\ ck_result = NoChunks

\* chunking.py:4-23  the call returns or raises
ChunkCall ==
  /\ ck_result = NoChunks
  /\ ck_result' = chunk_text(ck_text, ck_max_chars, ck_overlap)
  /\ UNCHANGED <<ck_text, ck_max_chars, ck_overlap, nonChunk>>

ChunkNext == ChunkCall

InitChunk ==
  QuotaQuiet /\ RateQuiet /\ IngestQuiet /\ RetrieveQuiet /\ GroundingQuiet /\ ChatQuiet /\ ChunkInit

SpecChunk == InitChunk /\ [][ChunkNext]_vars

\* chunk_text returned its chunks
Chunked == ck_result.status = "returned"

\* C26: chunk_text terminates for every text, every max_chars > 0 and every
\* integer overlap (negative, or >= max_chars, after clamping to
\* [0, max_chars - 1]): the call returns, each window starts strictly after
\* the previous window's start, so there are no more windows than
\* characters, and the loop stops at the first window whose end is the end
\* of the text, so no window is emitted twice.
C26_Terminates ==
  ck_result.status # "none" /\ ck_max_chars > 0 =>
    LET w == ck_result.windows
    IN /\ Chunked
       /\ \A i \in DOMAIN w : i > 1 => w[i].start > w[i - 1].start
       /\ \A i \in DOMAIN w : w[i].end = Len(ck_text) <=> i = Len(w)
       /\ \A i, j \in DOMAIN w : i # j => w[i] # w[j]
       /\ Len(w) <= Len(ck_text)
       /\ ck_text # << >> => w # << >>

\* the call cut four windows, the last a full one, under an overlap of
\* max_chars or more
C26_Witness ==
  /\ Chunked
  /\ ck_overlap >= ck_max_chars
  /\ Len(ck_result.windows) >= 4
  /\ LET w == ck_result.windows[Len(ck_result.windows)]
     IN w.end - w.start = ck_max_chars

\* the call cut its windows under a negative overlap
C26_WitnessNegative ==
  Chunked /\ ck_overlap < 0 /\ Len(ck_result.windows) >= 2

\* the chunk without its prefix of n characters
DropPrefix(chunk, n) ==
  IF n <= 0 THEN chunk ELSE SubSeq(chunk, n + 1, Len(chunk))

\* the chunks concatenated, each but the first without its prefix of n
\* characters
RECURSIVE Rejoin(_, _, _)
Rejoin(cs, n, first) ==
  IF cs = << >> THEN << >>
  ELSE (IF first THEN Head(cs) ELSE DropPrefix(Head(cs), n))
         \o Rejoin(Tail(cs), n, FALSE)

\* overlap as chunk_text clamps it, to [0, max_chars - 1]
ClampedOverlap ==
  IF ck_overlap < 0 THEN 0
  ELSE IF ck_overlap > ck_max_chars - 1 THEN ck_max_chars - 1
  ELSE ck_overlap

NoWhitespace(t) == \A i \in DOMAIN t : t[i] \notin Whitespace

\* C19 as stated: for every text T, every max_chars > 0 and every overlap,
\* the chunks chunk_text returns, each but the first without its prefix of
\* overlap characters, concatenate to T exactly, whitespace included.
C19_AsStated ==
  Chunked => Rejoin(ck_result.chunks, ck_overlap, TRUE) = ck_text

\* C19: for every text T without whitespace characters, every max_chars > 0
\* and every overlap, the chunks chunk_text returns, each but the first
\* without its prefix of as many characters as the overlap clamped to
\* [0, max_chars - 1], concatenate to T exactly.
C19_Reconstructs ==
  Chunked /\ NoWhitespace(ck_text) =>
    Rejoin(ck_result.chunks, ClampedOverlap, TRUE) = ck_text

\* a text without whitespace was cut into three or more overlapping chunks
\* under an overlap that chunk_text clamped
C19_Witness ==
  /\ Chunked
  /\ NoWhitespace(ck_text)
  /\ Len(ck_result.chunks) >= 3
  /\ ClampedOverlap >= 1
  /\ ck_overlap > ClampedOverlap

\* -------------------------------------------------------------------- /chat
MaxCharLimit == 2

\* main.py:223-224  _fallback_answer (the message as one piece of text)
FallbackAnswer == <<"I can't answer confidently from my verified sources right now.">>

\* limits.py:6-8  hash_user_id: the digest of the salted id
hash_user_id(raw_user) == <<"sha256", raw_user>>

\* schemas: the requests: a message of one character or more, a session id,
\* a user id or None
ChatMessages == {[i \in 1..n |-> "q"] : n \in 1..(MaxCharLimit + 1)}

ChatRequests ==
  [message : ChatMessages, session_id : {"s1"}, user_id : {None, "alice"}]

\* retriever.py:141  f"S{idx}": the characters of the source id
DecimalDigit(n) == <<"0", "1", "2", "3", "4", "5", "6", "7", "8", "9">>[n + 1]

RECURSIVE Decimal(_)
Decimal(n) ==
  IF n < 10 THEN <<DecimalDigit(n)>>
  ELSE Append(Decimal(n \div 10), DecimalDigit(n % 10))

SourceIdText(source_id) == <<source_id[1]>> \o Decimal(source_id[2])

\* main.py:137  what retrieve returns to /chat: the result for no hit, for
\* one hit, for two hits of one document, for two and three documents
ChatPairs ==
  {<< >>,
   <<[score |-> 2, doc |-> HitDoc(1)]>>,
   <<[score |-> 2, doc |-> HitDoc(1)], [score |-> 1, doc |-> HitDoc(1)]>>,
   <<[score |-> 2, doc |-> HitDoc(1)], [score |-> 1, doc |-> HitDoc(3)]>>,
   <<[score |-> 2, doc |-> HitDoc(1)], [score |-> 2, doc |-> HitDoc(3)],
     [score |-> 1, doc |-> HitDoc(2)]>>}

ChatResults == {Result(HitsOf(pairs), top_sources) : pairs \in ChatPairs}

\* client.py:21-34  what generate_chat_completion comes to: it raises, or
\* returns the stripped completion, which may be empty
NoCompletion == [raised |-> FALSE, error |-> "None", text |-> << >>]

Completions ==
  {<< >>, <<"x">>, <<"[", "S", "1", "]">>, <<"[", "S", "2", "]">>,
   <<"[", "S", "3", "]">>, <<"x", "[", "S", "1", "]", "[", "S", "2", "]">>,
   <<"[", "S", "1", "]", "[", "S", "3", "]">>}

LlmOutcomes ==
  {[NoCompletion EXCEPT !.raised = TRUE, !.error = "APIError"]}
    \cup {[NoCompletion EXCEPT !.text = t] : t \in Completions}

\* main.py:202, 218, 221  a grounding_result the handler writes itself
NotGrounded(reason) ==
  [NoPayload EXCEPT !.keys = {"ok", "reason", "citations"}, !.reason = reason]

\* main.py:187-191  allowed_citations
AllowedCitations(sources_found) ==
  {SourceIdText(sources_found[n].source_id) : n \in DOMAIN sources_found}

\* prompts.py:22-40  build_context: one entry per excerpt whose text is not
\* blank, under the id of its source
RECURSIVE ContextOfExcerpts(_, _)
ContextOfExcerpts(source_id, excerpts) ==
  IF excerpts = << >> THEN << >>
  ELSE (IF Head(excerpts).text # << >>
          THEN <<[source_id |-> source_id, text |-> Head(excerpts).text]>>
          ELSE << >>)
         \o ContextOfExcerpts(source_id, Tail(excerpts))

RECURSIVE build_context(_)
build_context(sources) ==
  IF sources = << >> THEN << >>
  ELSE ContextOfExcerpts(SourceIdText(Head(sources).source_id), Head(sources).excerpts)
         \o build_context(Tail(sources))

\* main.py:167-185  citation_payload_full
CitationPayloadFull(sources_found) ==
  [n \in DOMAIN sources_found |->
     [id |-> SourceIdText(sources_found[n].source_id),
      url |-> sources_found[n].source_url,
      score |-> sources_found[n].score,
      previews |-> [e \in DOMAIN sources_found[n].excerpts |->
                      sources_found[n].excerpts[e].text]]]

\* grounding.py:23-36  filter_citations: the citations of the used ids, in
\* the order of the used ids
RECURSIVE filter_citations(_, _)
filter_citations(citations, used_ids) ==
  IF citations = << >> \/ used_ids = << >> THEN << >>
  ELSE LET hit == {n \in DOMAIN citations : citations[n].id = Head(used_ids)}
           rest == IF Tail(used_ids) = << >> THEN << >>
                   ELSE filter_citations(citations, Tail(used_ids))
       IN (IF hit = {} THEN << >> ELSE <<citations[Max(hit)]>>) \o rest

\* safe mode entered only when retrieval found no source
SafeModeIgnoresGrounding(sources_found, grounding_result) ==
  sources_found = << >>

\* main.py:226-237  safe_mode
SafeMode(sources_found, grounding_result) ==
  sources_found = << >> \/ ~grounding_result.ok

\* main.py:226-237  fallback_reason
FallbackReason(sources_found, index_missing, llm_error_reason, grounding_result) ==
  IF sources_found = << >>
    THEN (IF index_missing THEN "NO_INDEX" ELSE "NO_CONTEXT")
  ELSE IF ~grounding_result.ok
    THEN (IF llm_error_reason \notin {None, ""}
             \/ grounding_result.reason \in {"EMPTY_COMPLETION", "LLM_NOT_EXECUTED"}
            THEN "LLM_ERROR" ELSE "GROUNDING_FAILED")
  ELSE None

\* main.py:239-293  the response
Response(sources_found, index_missing, llm_error_reason, grounding_result) ==
  LET fallback_reason ==
        FallbackReason(sources_found, index_missing, llm_error_reason, grounding_result)
      safe_mode == SafeMode(sources_found, grounding_result)
      answer == IF safe_mode THEN FallbackAnswer ELSE grounding_result.text
      citation_payload ==
        IF safe_mode THEN CitationPayloadFull(sources_found)
        ELSE filter_citations(CitationPayloadFull(sources_found),
                              extract_source_citations(answer))
  IN [status |-> 200,
      keys |-> {"request_id", "session_id", "answer", "citations"}
                 \cup (IF fallback_reason \notin {None, ""}
                         THEN {"fallback_reason"} ELSE {}),
      answer |-> answer,
      citations |-> citation_payload,
      fallback_reason |-> fallback_reason]

\* config.py:52-66  the settings /chat reads; logger.py:41-59 the tables are
\* empty; no request was made
ChatInit ==
  /\ settings_citations_required \in BOOLEAN
  /\ settings_strict_grounding \in BOOLEAN
  /\ settings_char_limit \in 1..MaxCharLimit
  /\ top_k = MaxTopK
  /\ top_sources \in 1..MaxTopSources
  /\ RetrieveIdle
  /\ ChatIdle

\* main.py:76-134  the request arrives: the character limit (400), then
\* ensure_session and check_and_increment (429 when not allowed)
ChatAdmission(req) ==
  LET session_id == req.session_id
      raw_user == IF req.user_id = None THEN session_id ELSE req.user_id
      user_id_hash == hash_user_id(raw_user)
      ensured == InsertSession(sessions, session_id, user_id_hash)
      reason == CheckReason(daily_usage, ensured, today, user_id_hash, session_id)
      allowed == reason = "OK"
  IN
  /\ ch_pc = "idle"
  /\ ch_response = NoResponse
  /\ ch_req' = req
  /\ IF Len(req.message) > settings_char_limit
       THEN /\ ch_response' = [NoResponse EXCEPT !.status = 400]
            /\ ch_pc' = "done"
            /\ UNCHANGED <<daily_usage, sessions, last>>
       ELSE /\ sessions' = IF allowed THEN IncrementSession(ensured, session_id)
                           ELSE ensured
            /\ daily_usage' = IF allowed THEN UpsertDaily(daily_usage, today, user_id_hash)
                              ELSE daily_usage
            /\ last' = [op |-> "check_and_increment", user |-> user_id_hash,
                        session |-> session_id, day |-> today,
                        allowed |-> allowed, reason |-> reason]
            /\ ch_response' = IF allowed THEN NoResponse
                              ELSE [NoResponse EXCEPT !.status = 429]
            /\ ch_pc' = IF allowed THEN "retrieve" ELSE "done"
  /\ UNCHANGED <<quotaCfg, today, calls, dayCalls, dayPre, sessCalls, sessPre,
                 quotaThreads, chatCfg, chatLocals>>

\* the handler head with the rate limiter left out of the picture
ChatStart(req) == ChatAdmission(req) /\ UNCHANGED nonChat

\* main.py:136-152  retrieve returns a result, or raises and the empty
\* result stands in; then the index file is looked for
ChatRetrieve ==
  /\ ch_pc = "retrieve"
  /\ \E raised \in BOOLEAN, result \in ChatResults :
       ch_retrieval' = IF raised THEN EmptyResult ELSE result
  /\ ch_index_missing' \in BOOLEAN
  /\ ch_pc' = "generate"
  /\ UNCHANGED <<quotaVars, chatCfg, ch_req, ch_llm_output, ch_llm_error_reason,
                 ch_grounding, ch_response, nonChat>>

\* main.py:187-221  the prompt is built; with a prompt the completion is
\* generated and, if not empty, validated
ChatGenerate ==
  LET sources_found == ch_retrieval.sources
      user_prompt == build_context(sources_found)
  IN
  /\ ch_pc = "generate"
  /\ IF user_prompt # << >>
       THEN \E llm \in LlmOutcomes :
              /\ ch_llm_output' = llm.text
              /\ ch_llm_error_reason' = llm.error
              /\ ch_grounding' =
                   IF llm.text # << >>
                     THEN enforce_grounding(llm.text, AllowedCitations(sources_found),
                                            settings_citations_required,
                                            settings_strict_grounding)
                     ELSE NotGrounded("EMPTY_COMPLETION")
       ELSE /\ ch_llm_output' = << >>
            /\ ch_llm_error_reason' = "NO_CONTEXT_AVAILABLE"
            /\ ch_grounding' = NotGrounded("NO_CONTEXT_AVAILABLE")
  /\ ch_pc' = "respond"
  /\ UNCHANGED <<quotaVars, chatCfg, ch_req, ch_retrieval, ch_index_missing,
                 ch_response, nonChat>>

\* ChatRespond giving the question back to the session when the answer is
\* the fallback message
ChatRespondRefunds ==
  LET response == Response(ch_retrieval.sources, ch_index_missing,
                           ch_llm_error_reason, ch_grounding)
      s == ch_req.session_id
  IN
  /\ ch_pc = "respond"
  /\ ch_response' = response
  /\ sessions' = IF response.answer = FallbackAnswer
                   THEN [sessions EXCEPT ![s].question_count = @ - 1]
                   ELSE sessions
  /\ ch_pc' = "done"
  /\ UNCHANGED <<quotaCfg, today, daily_usage, quotaHist, quotaThreads, chatCfg,
                 ch_req, chatLocals, nonChat>>

\* main.py:223-293  the answer, the citations and the fallback reason
ChatRespond ==
  /\ ch_pc = "respond"
  /\ ch_response' = Response(ch_retrieval.sources, ch_index_missing,
                             ch_llm_error_reason, ch_grounding)
  /\ ch_pc' = "done"
  /\ UNCHANGED <<quotaVars, chatCfg, ch_req, chatLocals, nonChat>>

ChatNext ==
  \/ \E req \in ChatRequests : ChatStart(req)
  \/ ChatRetrieve
  \/ ChatGenerate
  \/ ChatRespond

InitChat ==
  QuotaInit /\ RateQuiet /\ IngestQuiet /\ GroundingQuiet /\ ChunkQuiet /\ ChatInit

SpecChat == InitChat /\ [][ChatNext]_vars

\* main.py:76-77  the response was sent; the handler is ready for the next
\* request
ChatReturn ==
  /\ ch_pc = "done"
  /\ ch_pc' = "idle"
  /\ ch_req' = NoRequest
  /\ ch_retrieval' = EmptyResult
  /\ ch_index_missing' = FALSE
  /\ ch_llm_output' = << >>
  /\ ch_llm_error_reason' = "None"
  /\ ch_grounding' = NoPayload
  /\ ch_response' = NoResponse
  /\ UNCHANGED <<quotaVars, chatCfg, nonChat>>

\* one request after the other
ChatRepeatNext == ChatNext \/ ChatReturn

SpecChatRepeat == InitChat /\ [][ChatRepeatNext]_vars

\* /chat answered the request (status 200)
ChatAnswered == ch_pc = "done" /\ ch_response.status = 200

\* retrieval returned at least one source
SourcesFound == ch_retrieval.sources # << >>

\* a text was generated and the Grounding Validator accepts it against the
\* ids of the sources found
ValidatorAccepted ==
  /\ ch_llm_output # << >>
  /\ enforce_grounding(ch_llm_output,
                       {SourceIdText(<<"S", n>>) : n \in DOMAIN ch_retrieval.sources},
                       settings_citations_required, settings_strict_grounding).ok

FallbackCodes == {"NO_INDEX", "NO_CONTEXT", "LLM_ERROR", "GROUNDING_FAILED"}

\* C18: the /chat answer is the generated text only when retrieval returned
\* at least one source and the Grounding Validator accepted the text; in
\* every other case (no sources, generation error or empty completion,
\* grounding rejection) the answer is the fixed fallback message and the
\* response carries a fallback_reason code.
C18_AnswerOrFallback ==
  ChatAnswered =>
    IF SourcesFound /\ ValidatorAccepted
      THEN ch_response.answer = ch_llm_output
      ELSE /\ ch_response.answer = FallbackAnswer
           /\ ch_response.answer # ch_llm_output
           /\ "fallback_reason" \in ch_response.keys
           /\ ch_response.fallback_reason \in FallbackCodes

\* sources were found and a text was generated, and the validator rejected
\* it: the fallback message was answered
C18_Witness ==
  /\ ChatAnswered
  /\ SourcesFound
  /\ ch_llm_output # << >>
  /\ ~ValidatorAccepted
  /\ ch_response.fallback_reason = "GROUNDING_FAILED"

\* the generated text was answered
C18_WitnessGenerated ==
  ChatAnswered /\ SourcesFound /\ ValidatorAccepted /\ ch_response.answer = ch_llm_output

\* the generation raised, or came back empty
C18_WitnessLlmError ==
  ChatAnswered /\ SourcesFound /\ ch_llm_output = << >>
    /\ ch_llm_error_reason = None /\ ch_response.fallback_reason = "LLM_ERROR"

\* no source was found
C18_WitnessNoSources ==
  ChatAnswered /\ ~SourcesFound /\ ~ch_index_missing
    /\ ch_response.fallback_reason = "NO_CONTEXT"

\* the step admits a /chat request: check_and_increment returned allowed
ChatAdmits == ch_pc = "idle" /\ ch_pc' = "retrieve"

\* C30: quota is consumed at admission and never refunded: the step that
\* admits a /chat request adds exactly 1 to the DailyUsage count of the user
\* hash and to the question_count of the session, and no later step of the
\* request (retrieval error, no sources, generation failure, grounding
\* rejection, fallback answer, the response) changes a DailyUsage or Session
\* row, so every admitted request counts against the limits exactly once.
C30_NeverRefunded ==
  [][/\ ChatAdmits =>
          LET s == ch_req'.session_id
              u == last'.user
          IN /\ DailyCount(daily_usage', today, u)
                  = DailyCount(daily_usage, today, u) + 1
             /\ sessions'[s].question_count
                  = (IF s \in DOMAIN sessions THEN sessions[s].question_count ELSE 0) + 1
     /\ ch_pc \in {"retrieve", "generate", "respond", "done"} =>
          /\ daily_usage' = daily_usage
          /\ sessions' = sessions]_vars

\* the second admitted request of a session was answered with the fallback
\* message and the session counts two questions
C30_Witness ==
  /\ ch_pc = "done"
  /\ ch_response.status = 200
  /\ ch_response.answer = FallbackAnswer
  /\ sessions[ch_req.session_id].question_count = 2
  /\ daily_usage[<<today, last.user>>] = 2

\* ------------------------------------------------- /chat behind its gates
\* rate_limit.py:20-22,25  the key of a /chat request: (client host, path)
ChatGateKey == <<"ip1", "/chat">>

\* ChatArrive with the handler head run whatever the limiter said
ChatArriveUngated(req) ==
  /\ ch_pc = "idle"
  /\ RateLimitCheck(ChatGateKey)
  /\ ChatAdmission(req)
  /\ UNCHANGED <<storeVars, ingestVars, retrieveVars, groundVars, chunkVars>>

\* main.py:76-134  a /chat request arrives: Depends(enforce_rate_limit) runs
\* first and its HTTPException(429) ends the request before the handler body;
\* otherwise the handler head runs (character limit, ensure_session,
\* check_and_increment)
ChatArrive(req) ==
  /\ ch_pc = "idle"
  /\ RateLimitCheck(ChatGateKey)
  /\ IF rl_last'.allowed
       THEN ChatAdmission(req)
       ELSE /\ ch_req' = req
            /\ ch_response' = [NoResponse EXCEPT !.status = 429]
            /\ ch_pc' = "done"
            /\ UNCHANGED <<quotaVars, chatCfg, chatLocals>>
  /\ UNCHANGED <<storeVars, ingestVars, retrieveVars, groundVars, chunkVars>>

\* requests of one client, one after the other, each through the limiter
ChatGatedNext ==
  \/ \E req \in ChatRequests : ChatArrive(req)
  \/ ChatRetrieve
  \/ ChatGenerate
  \/ ChatRespond
  \/ ChatReturn

\* config.py:52-66,80-82  the limiter's settings are free; citations_required
\* and strict_grounding keep their defaults, the window is the widest one
InitChatGated ==
  /\ QuotaInit /\ RateInit /\ IngestQuiet /\ GroundingQuiet /\ ChunkQuiet
  /\ ChatInit
  /\ settings_citations_required /\ settings_strict_grounding
  /\ top_sources = MaxTopSources
  /\ window = MaxWindow

SpecChatGated == InitChatGated /\ [][ChatGatedNext]_vars

\* the step ends the request before retrieval: 429 or 400
ChatRejects == ch_pc = "idle" /\ ch_pc' = "done"

\* the step invokes retrieve (Embedding Client and Retriever, main.py:137) or
\* generate_answer (main.py:183)
ChatInvokes == ch_pc \in {"retrieve", "generate"} /\ ch_pc' # ch_pc

\* C25: the admission gates precede all retrieval work: retrieval and
\* generation are invoked only for a request that the Rate Limiter admitted,
\* whose message is within the character limit and for which
\* check_and_increment returned allowed; a request rejected by the rate
\* limiter, the character limit or the quota ends with 429 or 400 and never
\* reaches retrieval or generation; a request rejected by the rate limiter
\* or the character limit changes no DailyUsage or Session row.
C25_GatesPrecedeRetrieval ==
  [][/\ ChatAdmits =>
          /\ rl_checks' = rl_checks + 1
          /\ rl_last'.key = ChatGateKey /\ rl_last'.allowed
          /\ Len(ch_req'.message) <= settings_char_limit
          /\ last'.op = "check_and_increment" /\ last'.allowed
          /\ last'.session = ch_req'.session_id
     /\ ch_pc' = "retrieve" /\ ch_pc # "retrieve" => ChatAdmits
     /\ ChatInvokes =>
          /\ ch_pc = "retrieve" => ch_pc' = "generate"
          /\ ch_pc = "generate" => ch_pc' = "respond"
          /\ rl_last.allowed /\ last.allowed
          /\ last.session = ch_req.session_id
          /\ Len(ch_req.message) <= settings_char_limit
     /\ ~ChatInvokes => UNCHANGED <<ch_retrieval, ch_index_missing, ch_llm_output,
                                    ch_llm_error_reason>>
          \/ (ch_pc = "done" /\ ch_pc' = "idle")
     /\ ChatRejects =>
          /\ rl_checks' = rl_checks + 1
          /\ ch_response'.status \in {400, 429}
          /\ \/ ~rl_last'.allowed
             \/ Len(ch_req'.message) > settings_char_limit
             \/ ~last'.allowed
          /\ UNCHANGED chatLocals
          /\ ~rl_last'.allowed \/ ch_response'.status = 400 =>
               /\ daily_usage' = daily_usage
               /\ sessions' = sessions
     /\ ch_pc = "done" /\ ch_response.status \in {400, 429} =>
          /\ ch_pc' \in {"done", "idle"}
          /\ UNCHANGED chatLocals]_vars

\* the limiter rejected a request of a client whose earlier request was
\* admitted and counted
C25_Witness ==
  /\ ch_pc = "done"
  /\ ch_response.status = 429
  /\ ip_rate_limit_enabled /\ ~rl_last.allowed
  /\ rl_last.priorInWindow >= 1
  /\ \E s \in DOMAIN sessions : sessions[s].question_count >= 1

\* a request went through both gates and reached generation
C25_WitnessAdmitted ==
  /\ ch_pc = "respond"
  /\ ip_rate_limit_enabled /\ rl_last.allowed /\ last.allowed

\* the limiter admitted a request that the character limit rejected
C25_WitnessTooLong ==
  /\ ch_pc = "done"
  /\ ch_response.status = 400
  /\ ip_rate_limit_enabled /\ rl_last.allowed

\* the limiter admitted a request that the quota rejected
C25_WitnessQuota ==
  /\ ch_pc = "done"
  /\ ch_response.status = 429
  /\ ip_rate_limit_enabled /\ rl_last.allowed /\ ~last.allowed

====
